---- MODULE Spec2Model ----
(***************************************************************************)
(* Model of the asynchronous task orchestrator of web/services.py          *)
(* (AnalysisService): submission, the lazily created thread pool, the two   *)
(* job runners, the task registry with its log appender, and the status     *)
(* queries.                                                                 *)
(*                                                                          *)
(* One action is one step of one thread: the local computation and          *)
(* collaborator calls that precede a registry access, followed by that      *)
(* access (one `with self._tasks_lock:` block), or one unsynchronised       *)
(* write.  The "ts" and "msg" keys of a log entry are display text that the  *)
(* service writes and never reads; an entry is modelled by its "level".    *)
(***************************************************************************)
EXTENDS Integers, Sequences, FiniteSets, TLC

(* ------------------------------ bounds --------------------------------- *)
\* number of submissions (one request thread each)
MaxJobs == 2
\* of which single-instrument analyses (the others are market reviews)
MaxAnalyses == 1
\* max_workers of the service under test (constructor parameter)
MaxWorkers == 1
\* last clock reading of a run
MaxClock == 1
\* clock readings per second (the resolution of datetime.now())
TicksPerSec == 2

(* ------------------------- program constants --------------------------- *)
MaxTaskLogs == 200

Jobs == 1..MaxJobs
Execs == 1..MaxJobs
Codes == {"600519"}
ReportTypes == {"simple"}
\* str(e) of the exceptions collaborators raise; str(Exception()) is ""
ExcTexts == {"", "timeout"}

None == "None"
NoRef == 0
Absent == << >>
NoProgress == 0 - 1

(* ----------------------------- time formats ---------------------------- *)
\* datetime.isoformat(): the fraction is omitted when it is zero
IsoFormat(t) ==
    IF t % TicksPerSec = 0 THEN << t \div TicksPerSec >>
    ELSE << t \div TicksPerSec, t % TicksPerSec >>

\* strftime('%Y%m%d_%H%M%S_%f'): fixed width, the fraction always present
StrfTime(t) == << t \div TicksPerSec, t % TicksPerSec >>

\* Python's str comparison on two formatted times: lexicographic, a proper
\* prefix is smaller
RECURSIVE StrLess(_, _)
StrLess(a, b) ==
    IF Len(b) = 0 THEN FALSE
    ELSE IF Len(a) = 0 THEN TRUE
    ELSE IF Head(a) # Head(b) THEN Head(a) < Head(b)
    ELSE StrLess(Tail(a), Tail(b))

(* ------------------------------- state --------------------------------- *)
VARIABLES
    clock,       \* the wall clock read by datetime.now()
    executor,    \* self._executor: 0 is None, else the pool it refers to
    nexec,       \* pools constructed so far
    queue,       \* queue[e]: the work queue of pool e
    running,     \* running[e]: jobs being executed by the workers of pool e
    spc,         \* spc[s]: position of request thread s in submit_*
    req,         \* req[s]: arguments and task_id of submission s
    jpc,         \* jpc[j]: position of job j in its runner
    tasks,       \* self._tasks: task_id -> record
    order,       \* insertion order of the keys of self._tasks
    resultData,  \* resultData[j]: the result_data dict object of job j
    rd,          \* the status query in progress (reader thread)
    listed,      \* the value returned by the last list_tasks call
    allLogs,     \* every entry handed to _append_task_log (history)
    http,        \* the last HTTP exchange of ApiHandler: request and response
    mloc,        \* mloc[j]: search_service and analyzer of _run_market_review
    logBy,       \* logBy[tid]: the job that appended each entry (history)
    wrote,       \* wrote[j]: stage and progress run j has written (history)
    call,        \* the last call of _append_task_log made from outside a runner
    instance,    \* AnalysisService._instance: 0 is None, else the object
    constructed, \* AnalysisService objects constructed so far
    ilock,       \* AnalysisService._lock: 0 is free, else the holding thread
    gpc,         \* gpc[t]: position of thread t in get_instance
    got,         \* got[t]: what get_instance returned to thread t
    ptask,       \* the page's entry for a task: status, error, pollCount
    pollInterval, \* the page's timer: TRUE while setInterval is active
    sent,        \* GET /task requests of the page the server has not answered
    resp,        \* resp[st]: answers with status st on their way to the page
    server,      \* the status of the task's record on the server
    polled,      \* GET /task requests the page has issued (history)
    seenTerminal, \* the page has stored a terminal server status (history)
    env,         \* the content of the .env file
    backup,      \* the content of the last .env.bak.* file written
    cfg,         \* the last two calls of ConfigService: arguments and result
    page         \* the last exchange of PageHandler: request and response

instVars == << instance, constructed, ilock, gpc, got >>
pageVars == << ptask, pollInterval, sent, resp, server, polled, seenTerminal >>
configVars == << env, backup, cfg, page >>
auxVars == << instVars, pageVars, configVars >>

vars == << clock, executor, nexec, queue, running, spc, req, jpc, tasks,
           order, resultData, rd, listed, allLogs, http, mloc, logBy, wrote,
           call, auxVars >>

\* the state of one AnalysisService and of the queries on it
serviceVars == << clock, executor, nexec, queue, running, spc, req, jpc,
                  tasks, order, resultData, rd, listed, allLogs, http, mloc,
                  logBy, wrote, call >>

poolVars == << executor, nexec, queue, running >>
subVars == << spc, req >>
queryVars == << rd, listed, allLogs, http, call, auxVars >>
otherVars == << listed, allLogs, http, call, auxVars >>

NoReq == [kind |-> None, code |-> None, report_type |-> None,
          send_notification |-> FALSE, task_id |-> << >>]
NoResult == [operation_advice |-> None, report_markdown |-> None,
             report_html |-> None]
EmptyTasks == [x \in {} |-> 0]
NoListing == [limit |-> 0, out |-> << >>]
NoLocals == [search |-> None, analyzer |-> None]
NoCall == [op |-> None, tid |-> << >>]
NoHttp == [route |-> None, arg |-> << >>, status |-> 0, limit |-> 0,
           out |-> << >>]

Tid(j) == req[j].task_id
Executing == UNION {running[e] : e \in Execs}

(* ------------------------------ registry ------------------------------- *)
Entry(level) == [level |-> level]

LastN(s, n) == SubSeq(s, Len(s) - n + 1, Len(s))

\* the mutant keeps the oldest entries
AppendTaskLogKeepOldest(T, tid, level, stage, progress) ==
    IF tid \notin DOMAIN T THEN T
    ELSE LET logs0 == Append(T[tid].logs, Entry(level))
             logs1 == IF Len(logs0) > MaxTaskLogs
                      THEN SubSeq(logs0, 1, MaxTaskLogs) ELSE logs0
         IN [T EXCEPT ![tid].logs = logs1,
                      ![tid].stage = IF stage = None THEN @ ELSE stage,
                      ![tid].progress =
                          IF progress = NoProgress THEN @ ELSE progress]

\* the mutant starts a record for an id that has none
AppendTaskLogCreate(T, tid, level, stage, progress) ==
    IF tid \notin DOMAIN T
    THEN (tid :> [logs |-> << Entry(level) >>, stage |-> stage,
                  progress |-> progress]) @@ T
    ELSE LET logs0 == Append(T[tid].logs, Entry(level))
             logs1 == IF Len(logs0) > MaxTaskLogs
                      THEN LastN(logs0, MaxTaskLogs) ELSE logs0
         IN [T EXCEPT ![tid].logs = logs1,
                      ![tid].stage = IF stage = None THEN @ ELSE stage,
                      ![tid].progress =
                          IF progress = NoProgress THEN @ ELSE progress]

\* _append_task_log, the part under self._tasks_lock
AppendTaskLog(T, tid, level, stage, progress) ==
    IF tid \notin DOMAIN T THEN T
    ELSE LET logs0 == Append(T[tid].logs, Entry(level))
             logs1 == IF Len(logs0) > MaxTaskLogs
                      THEN LastN(logs0, MaxTaskLogs) ELSE logs0
         IN [T EXCEPT ![tid].logs = logs1,
                      ![tid].stage = IF stage = None THEN @ ELSE stage,
                      ![tid].progress =
                          IF progress = NoProgress THEN @ ELSE progress]

\* the dict literal of _run_analysis / _run_market_review
NewRecord(r, t) ==
    [task_id |-> r.task_id,
     code |-> r.code,
     kind |-> IF r.kind = "market_review" THEN "market_review" ELSE None,
     status |-> "running",
     start_time |-> IsoFormat(t),
     end_time |-> Absent,
     result |-> NoRef,
     error |-> None,
     report_type |-> r.report_type,
     send_notification |-> r.send_notification,
     stage |-> IF r.kind = "market_review" THEN "market_review" ELSE "init",
     progress |-> 0,
     logs |-> << >>]

\* the mutant stores the record before its start_time and stage are set
PutRecordPartial(T, tid, rec) ==
    (tid :> [rec EXCEPT !.start_time = Absent, !.stage = None]) @@ T

\* self._tasks[task_id] = {...}: an existing key keeps its position
PutRecord(T, tid, rec) == (tid :> rec) @@ T
PutOrder(T, o, tid) == IF tid \in DOMAIN T THEN o ELSE Append(o, tid)

\* the mutant sets the status and the error, and no end_time
FailRecordNoEnd(T, tid, t, msg) ==
    [T EXCEPT ![tid].status = "failed", ![tid].error = msg]

\* the mutant clears the result when it records the failure
FailRecordDropResult(T, tid, t, msg) ==
    [T EXCEPT ![tid].status = "failed",
              ![tid].end_time = IsoFormat(t),
              ![tid].error = msg,
              ![tid].result = NoRef]

\* self._tasks[task_id].update({status, end_time, error})
FailRecord(T, tid, t, msg) ==
    [T EXCEPT ![tid].status = "failed",
              ![tid].end_time = IsoFormat(t),
              ![tid].error = msg]

\* self._tasks[task_id].update({status, end_time, result})
CompleteRecord(T, tid, t, ref) ==
    [T EXCEPT ![tid].status = "completed",
              ![tid].end_time = IsoFormat(t),
              ![tid].result = ref]

(* ------------------------- the service singleton ---------------------- *)
\* threads that call get_instance
MaxThreads == 3
Threads == 1..MaxThreads

InstInit ==
    /\ instance = 0
    /\ constructed = 0
    /\ ilock = 0
    /\ gpc = [t \in Threads |-> "idle"]
    /\ got = [t \in Threads |-> 0]

(* --------------------------- the bundled page -------------------------- *)
\* const MAX_POLL_COUNT = 120 in the page; the loop is the same for every
\* ceiling
MAX_POLL_COUNT == 3

ServerStatuses == {"running", "completed", "failed"}

\* tasks.set(taskId, {task: {status: 'running', ...}, pollCount: 0}) and
\* startPolling(), after a submission the server accepted
PageInit ==
    /\ ptask = [status |-> "running", error |-> None, pollCount |-> 0]
    /\ pollInterval = TRUE
    /\ sent = 0
    /\ resp = [st \in ServerStatuses |-> 0]
    /\ server = "running"
    /\ polled = 0
    /\ seenTerminal = FALSE

(* ------------------------- the configuration file --------------------- *)
NoCfg == [op |-> None, arg |-> << >>, ret |-> << >>, before |-> << >>,
          prevOp |-> None, prevArg |-> << >>, prevRet |-> << >>, calls |-> 0]
\* a form without fields: no checkbox ticked, no SCHEDULE_TIME, no env_text
NoForm == [enabled |-> FALSE, review |-> FALSE, time |-> << None >>,
           text |-> << >>]
NoPage == [route |-> None, client |-> None, form |-> NoForm, status |-> 0,
           shown |-> << >>, before |-> << >>, reads |-> 0, n |-> 0]

\* no .env file yet (read_env_text returns ""), nothing called
ConfigInit ==
    /\ env = << >>
    /\ backup = << >>
    /\ cfg = NoCfg
    /\ page = NoPage

\* the parts of the program the job runners do not touch, at start-up
AuxInit == InstInit /\ PageInit /\ ConfigInit

(* ---------------------------- record content --------------------------- *)
\* what a holder of the record dict of `tid` can read: the record and, through
\* its "result" key, the result_data object it refers to
ContentOf(T, R, tid) ==
    [rec |-> T[tid],
     res |-> IF T[tid].result = NoRef THEN NoResult ELSE R[T[tid].result]]

Reachable == [tid \in DOMAIN tasks |-> ContentOf(tasks, resultData, tid)]

IdleReader ==
    [pc |-> "idle", ref |-> << >>, head |-> ContentOf(
         (<< >> :> NewRecord(NoReq, 0)), << >>, << >>),
     view |-> ContentOf((<< >> :> NewRecord(NoReq, 0)), << >>, << >>),
     seen |-> {}]

\* history: the contents the queried record has had since the query took its
\* reference
Observe ==
    rd' = IF rd.pc \in {"head", "tail"}
          THEN [rd EXCEPT !.seen =
                   @ \cup {ContentOf(tasks', resultData', rd.ref)}]
          ELSE rd

(* ------------------------------- Init ---------------------------------- *)
\* AnalysisService.__init__, and nothing asked of it yet
ServiceInit ==
    /\ clock = 0
    /\ executor = 0
    /\ nexec = 0
    /\ queue = [e \in Execs |-> << >>]
    /\ running = [e \in Execs |-> {}]
    /\ spc = [s \in Jobs |-> "idle"]
    /\ req = [s \in Jobs |-> NoReq]
    /\ jpc = [j \in Jobs |-> "idle"]
    /\ tasks = EmptyTasks
    /\ order = << >>
    /\ resultData = [j \in Jobs |-> NoResult]
    /\ rd = IdleReader
    /\ listed = NoListing
    /\ allLogs = << >>
    /\ http = NoHttp
    /\ mloc = [j \in Jobs |-> NoLocals]
    /\ logBy = EmptyTasks
    /\ wrote = [j \in Jobs |-> << >>]
    /\ call = NoCall

Init == ServiceInit /\ AuxInit

(* ------------------------------- clock --------------------------------- *)
\* datetime.now(): time may have passed since the last reading, or not (two
\* readings within the clock's resolution are equal)
Now(t) == clock' = t


(* ---------------------------- submission ------------------------------- *)
\* task_id = f"{code}_{now:%Y%m%d_%H%M%S_%f}" / f"market_review_{...}"
TaskId(prefix, t) == << prefix, StrfTime(t) >>

AnalysisReq(code, rt, notify, t) ==
    [kind |-> "analysis", code |-> code, report_type |-> rt,
     send_notification |-> notify, task_id |-> TaskId(code, t)]

MarketReq(t) ==
    [kind |-> "market_review", code |-> "market", report_type |-> "full",
     send_notification |-> FALSE, task_id |-> TaskId("market_review", t)]

\* the calls request threads may still make at clock reading t
Requests(t) ==
    {MarketReq(t)} \cup
    IF Cardinality({s \in Jobs : req[s].kind = "analysis"}) < MaxAnalyses
    THEN {AnalysisReq(c, rt, n, t) :
             c \in Codes, rt \in ReportTypes, n \in BOOLEAN}
    ELSE {}

\* submit_analysis up to the task_id; submit_market_review likewise
SubmitBegin(s) ==
    \E t \in clock..MaxClock :
       /\ Now(t)
       /\ spc[s] = "idle"
       /\ \A s0 \in Jobs : s0 < s => spc[s0] # "idle"
       /\ \E r \in Requests(t) : req' = [req EXCEPT ![s] = r]
       /\ spc' = [spc EXCEPT ![s] = "executor"]
       /\ UNCHANGED << poolVars, jpc, tasks, order, mloc, logBy, wrote,
                       resultData, queryVars >>

\* the executor property: `if self._executor is None`
ExecutorCheck(s) ==
    /\ spc[s] = "executor"
    /\ spc' = [spc EXCEPT ![s] =
                  IF executor = 0 THEN "create_pool" ELSE "submit"]
    /\ UNCHANGED << clock, poolVars, req, jpc, tasks, order, mloc, logBy,
                    wrote, resultData, queryVars >>

\* the executor property: self._executor = ThreadPoolExecutor(...)
ExecutorCreate(s) ==
    /\ spc[s] = "create_pool"
    /\ nexec' = nexec + 1
    /\ executor' = nexec + 1
    /\ spc' = [spc EXCEPT ![s] = "submit"]
    /\ UNCHANGED << clock, queue, running, req, jpc, tasks, order, mloc, logBy,
                    wrote, resultData, queryVars >>

\* the mutant: a pool that takes a job only while a worker is free
AdmitsWhileFree(e) == Cardinality(running[e]) + Len(queue[e]) < MaxWorkers

\* ThreadPoolExecutor.submit on its unbounded work queue
Admits(e) == TRUE

\* `return self._executor`, then .submit(self._run_..., ...) and the return
Submit(s) ==
    /\ spc[s] = "submit"
    /\ Admits(executor)
    /\ queue' = [queue EXCEPT ![executor] = Append(@, s)]
    /\ jpc' = [jpc EXCEPT ![s] = "queued"]
    /\ spc' = [spc EXCEPT ![s] = "returned"]
    /\ UNCHANGED << clock, executor, nexec, running, req, tasks, order, mloc,
                    logBy, wrote, resultData, queryVars >>

(* ------------------------------ the pool ------------------------------- *)
\* ThreadPoolExecutor(max_workers=self._max_workers)
HasIdleWorker(e) == Cardinality(running[e]) < MaxWorkers

\* a worker thread of pool e takes the next work item
StartJob(e) ==
    /\ Len(queue[e]) > 0
    /\ HasIdleWorker(e)
    /\ running' = [running EXCEPT ![e] = @ \cup {Head(queue[e])}]
    /\ queue' = [queue EXCEPT ![e] = Tail(@)]
    /\ jpc' = [jpc EXCEPT ![Head(queue[e])] = "create"]
    /\ UNCHANGED << clock, executor, nexec, subVars, tasks, order, mloc, logBy,
                    wrote, resultData, queryVars >>

\* the runner returns: its worker is free again
Release(j) == [e \in Execs |-> running[e] \ {j}]

(* ------------------------- job runner helpers -------------------------- *)
IsAnalysis(j) == req[j].kind = "analysis"
IsMarket(j) == req[j].kind = "market_review"

Goto(j, to) == jpc' = [jpc EXCEPT ![j] = to]

\* history: job j has appended an entry to the logs of tid
AppendBy(B, tid, j) ==
    IF tid \notin DOMAIN B THEN B
    ELSE [B EXCEPT ![tid] = IF Len(@) < MaxTaskLogs THEN Append(@, j)
                                ELSE LastN(Append(@, j), MaxTaskLogs)]

\* one _append_task_log call of job j
LogStep(j, from, to, level, stage, progress) ==
    /\ jpc[j] = from
    /\ tasks' = AppendTaskLog(tasks, Tid(j), level, stage, progress)
    /\ logBy' = AppendBy(logBy, Tid(j), j)
    /\ wrote' = IF stage = None /\ progress = NoProgress THEN wrote
                ELSE [wrote EXCEPT ![j] = Append(@, << stage, progress >>)]
    /\ Goto(j, to)
    /\ UNCHANGED << clock, poolVars, subVars, order, mloc, resultData,
                    otherVars >>
    /\ Observe

\* the last _append_task_log call of a run, and the return
LastLogStep(j, from, level, stage) ==
    /\ jpc[j] = from
    /\ tasks' = AppendTaskLog(tasks, Tid(j), level, stage, 100)
    /\ logBy' = AppendBy(logBy, Tid(j), j)
    /\ wrote' = [wrote EXCEPT ![j] = << >>]
    /\ Goto(j, "done")
    /\ running' = Release(j)
    /\ UNCHANGED << clock, executor, nexec, queue, subVars, order, mloc,
                    resultData, otherVars >>
    /\ Observe

\* the mutant: the record is left as it is
RunCreateSkip(j) ==
    /\ jpc[j] = "create"
    /\ Goto(j, "log_start")
    /\ UNCHANGED << clock, poolVars, subVars, tasks, order, mloc, logBy, wrote,
                    resultData, queryVars >>

\* both runners: `self._tasks[task_id] = {...}` under the lock
RunCreate(j) ==
    \E t \in clock..MaxClock :
       /\ Now(t)
       /\ jpc[j] = "create"
       /\ tasks' = PutRecord(tasks, Tid(j), NewRecord(req[j], t))
       /\ order' = PutOrder(tasks, order, Tid(j))
       /\ logBy' = (Tid(j) :> << >>) @@ logBy
       /\ wrote' = [wrote EXCEPT ![j] =
                        << << NewRecord(req[j], t).stage,
                              NewRecord(req[j], t).progress >> >>]
       /\ Goto(j, "log_start")
       /\ UNCHANGED << poolVars, subVars, mloc, resultData, otherVars >>
       /\ Observe

RunLogStart(j) ==
    \/ /\ IsAnalysis(j)
       /\ LogStep(j, "log_start", "log_init", "INFO", "init", 3)
    \/ /\ IsMarket(j)
       /\ LogStep(j, "log_start", "m_search", "INFO", "market_review", 5)


(* ----------------------- _run_analysis (job runner) -------------------- *)
EmptyAnalysisMsg == "analysis returned no result"

\* imports done: "init" 8
A_LogInit(j) ==
    /\ IsAnalysis(j)
    /\ LogStep(j, "log_init", "log_fetch", "INFO", "init", 8)

\* get_config() and StockAnalysisPipeline(...) done: "fetch_data" 18
A_LogFetch(j) ==
    /\ IsAnalysis(j)
    /\ LogStep(j, "log_fetch", "fetch", "INFO", "fetch_data", 18)

\* pipeline.fetch_and_save_stock_data(code) returned (success, error)
A_FetchData(j) ==
    /\ IsAnalysis(j)
    /\ \E success \in BOOLEAN :
          IF success
          THEN LogStep(j, "fetch", "log_analyze", "INFO", "fetch_data", 35)
          ELSE LogStep(j, "fetch", "log_analyze", "WARNING", "fetch_data", 35)

A_LogAnalyze(j) ==
    /\ IsAnalysis(j)
    /\ LogStep(j, "log_analyze", "analyze", "INFO", "analyze", 55)

\* pipeline.analyze_stock(code) returned a result: result_data =
\* result.to_dict() and the first write of it under the lock
A_Analyze(j) ==
    /\ IsAnalysis(j)
    /\ jpc[j] = "analyze"
    /\ resultData' = [resultData EXCEPT ![j] =
                         [operation_advice |-> "buy",
                          report_markdown |-> None,
                          report_html |-> None]]
    /\ tasks' = [tasks EXCEPT ![Tid(j)].result = j]
    /\ Goto(j, "log_render")
    /\ UNCHANGED << clock, poolVars, subVars, order, mloc, logBy, wrote,
                    otherVars >>
    /\ Observe

\* pipeline.analyze_stock(code) returned None: the else branch
A_Empty(j) ==
    \E t \in clock..MaxClock :
       /\ Now(t)
       /\ IsAnalysis(j)
       /\ jpc[j] = "analyze"
       /\ tasks' = FailRecord(tasks, Tid(j), t, EmptyAnalysisMsg)
       /\ Goto(j, "log_empty")
       /\ wrote' = [wrote EXCEPT ![j] = << >>]
       /\ UNCHANGED << poolVars, subVars, order, mloc, logBy, resultData,
                       otherVars >>
       /\ Observe

\* the mutant logs the rendering under the stage before it
A_LogRenderStale(j) ==
    /\ IsAnalysis(j)
    /\ LogStep(j, "log_render", "render_md", "INFO", "analyze", 85)

A_LogRender(j) ==
    /\ IsAnalysis(j)
    /\ LogStep(j, "log_render", "render_md", "INFO", "render_report", 85)

\* result_data["report_markdown"] = generate_...(result), "" when it raises;
\* no lock is held
A_RenderReport(j) ==
    /\ IsAnalysis(j)
    /\ jpc[j] = "render_md"
    /\ \E md \in {"md", ""} :
          resultData' = [resultData EXCEPT ![j].report_markdown = md]
    /\ Goto(j, "render_html")
    /\ UNCHANGED << clock, poolVars, subVars, tasks, order, mloc, logBy, wrote,
                    otherVars >>
    /\ Observe

\* result_data["report_html"] = markdown2.markdown(report_md), "" when
\* markdown2 is missing or raises; no lock is held
A_RenderHtml(j) ==
    /\ IsAnalysis(j)
    /\ jpc[j] = "render_html"
    /\ \E html \in IF resultData[j].report_markdown = ""
                   THEN {""} ELSE {"html", ""} :
          resultData' = [resultData EXCEPT ![j].report_html = html]
    /\ Goto(j, "write_result")
    /\ UNCHANGED << clock, poolVars, subVars, tasks, order, mloc, logBy, wrote,
                    otherVars >>
    /\ Observe

\* the second write of result_data under the lock
A_WriteResult(j) ==
    /\ IsAnalysis(j)
    /\ jpc[j] = "write_result"
    /\ tasks' = [tasks EXCEPT ![Tid(j)].result = j]
    /\ Goto(j, "log_rendered")
    /\ UNCHANGED << clock, poolVars, subVars, order, mloc, logBy, wrote,
                    resultData, otherVars >>
    /\ Observe

A_LogRendered(j) ==
    /\ IsAnalysis(j)
    /\ LogStep(j, "log_rendered", "notify_check", "INFO", "render_report", 92)

\* send_notification and pipeline.notifier.is_available(): "notify" 95
A_LogNotify(j) ==
    /\ IsAnalysis(j)
    /\ req[j].send_notification
    /\ LogStep(j, "notify_check", "send", "INFO", "notify", 95)

\* the mutant calls send whatever the report is
A_SendCallAlways(j) ==
    /\ IsAnalysis(j)
    /\ jpc[j] = "send"
    /\ Goto(j, "sending")
    /\ UNCHANGED << clock, poolVars, subVars, tasks, order, mloc, logBy, wrote,
                    resultData, queryVars >>

\* report_content is not empty: pipeline.notifier.send(report_content) is
\* called
A_SendCall(j) ==
    /\ IsAnalysis(j)
    /\ jpc[j] = "send"
    /\ resultData[j].report_markdown # ""
    /\ Goto(j, "sending")
    /\ UNCHANGED << clock, poolVars, subVars, tasks, order, mloc, logBy, wrote,
                    resultData, queryVars >>

\* send returned True (INFO), False (WARNING) or raised, caught on the spot
\* (ERROR); "notify" 97
A_Send(j) ==
    /\ IsAnalysis(j)
    /\ \E level \in {"INFO", "WARNING", "ERROR"} :
          LogStep(j, "sending", "complete", level, "notify", 97)

\* report_content is empty: sent_ok = False without a call; "notify" 97
A_SendSkip(j) ==
    /\ IsAnalysis(j)
    /\ resultData[j].report_markdown = ""
    /\ LogStep(j, "send", "complete", "WARNING", "notify", 97)

\* update({status: completed, end_time, result}); reached after the notify
\* branch, or past it (send_notification false or is_available() false)
A_Complete(j) ==
    \E t \in clock..MaxClock :
       /\ Now(t)
       /\ IsAnalysis(j)
       /\ jpc[j] \in {"notify_check", "complete"}
       /\ tasks' = CompleteRecord(tasks, Tid(j), t, j)
       /\ Goto(j, "log_done")
       /\ UNCHANGED << poolVars, subVars, order, mloc, logBy, wrote,
                       resultData, otherVars >>
       /\ Observe

\* the positions of _run_analysis where a collaborator call can raise into
\* the outer handler
A_Raising(j) ==
    {"log_init", "log_fetch", "fetch", "analyze"}
        \cup (IF req[j].send_notification THEN {"notify_check"} ELSE {})

\* the mutant: the handler records nothing
A_ExceptSwallow(j) ==
    /\ IsAnalysis(j)
    /\ jpc[j] \in A_Raising(j)
    /\ Goto(j, "log_except")
    /\ UNCHANGED << clock, poolVars, subVars, tasks, order, mloc, logBy, wrote,
                    resultData, queryVars >>

\* except Exception as e: update({status: failed, end_time, error: str(e)})
A_Except(j) ==
    \E t \in clock..MaxClock :
       /\ Now(t)
       /\ IsAnalysis(j)
       /\ jpc[j] \in A_Raising(j)
       /\ \E e \in ExcTexts : tasks' = FailRecord(tasks, Tid(j), t, e)
       /\ Goto(j, "log_except")
       /\ wrote' = [wrote EXCEPT ![j] = << >>]
       /\ UNCHANGED << poolVars, subVars, order, mloc, logBy, resultData,
                       otherVars >>
       /\ Observe

A_LogDone(j) ==
    /\ IsAnalysis(j)
    /\ LastLogStep(j, "log_done", "INFO", "done")

A_LogEmpty(j) ==
    /\ IsAnalysis(j)
    /\ LastLogStep(j, "log_empty", "ERROR", "failed")

A_LogExcept(j) ==
    /\ IsAnalysis(j)
    /\ LastLogStep(j, "log_except", "ERROR", "failed")

(* --------------------- _run_market_review (job runner) ----------------- *)
EmptyReviewMsg == "market review returned no result"

\* search_service = None, then in a try of its own: SearchService(...) when
\* keys are configured; when that raises, a WARNING is logged and
\* search_service stays None
M_SearchInit(j) ==
    /\ IsMarket(j)
    /\ \/ /\ jpc[j] = "m_search"
          /\ \E svc \in {None, "ready"} :
                mloc' = [mloc EXCEPT ![j].search = svc]
          /\ Goto(j, "m_analyzer")
          /\ UNCHANGED << clock, poolVars, subVars, tasks, order, logBy, wrote,
                          resultData, queryVars >>
       \/ LogStep(j, "m_search", "m_analyzer", "WARNING",
                  None, NoProgress)

\* analyzer = None, then in a try of its own: GeminiAnalyzer(...) when a key
\* is configured; when that raises, a WARNING is logged and analyzer stays
\* None
M_AnalyzerInit(j) ==
    /\ IsMarket(j)
    /\ \/ /\ jpc[j] = "m_analyzer"
          /\ \E ai \in {None, "ready"} :
                mloc' = [mloc EXCEPT ![j].analyzer = ai]
          /\ Goto(j, "m_log_run")
          /\ UNCHANGED << clock, poolVars, subVars, tasks, order, logBy, wrote,
                          resultData, queryVars >>
       \/ LogStep(j, "m_analyzer", "m_log_run", "WARNING",
                  None, NoProgress)

M_LogRun(j) ==
    /\ IsMarket(j)
    /\ LogStep(j, "m_log_run", "m_review", "INFO", "market_review", 35)

\* run_market_review(_WebUINotifier(), analyzer=analyzer,
\* search_service=search_service) returned text: result_data is built and
\* written
M_Complete(j) ==
    \E t \in clock..MaxClock :
       /\ Now(t)
       /\ IsMarket(j)
       /\ jpc[j] = "m_review"
       /\ \E html \in {"html", ""} :
             resultData' = [resultData EXCEPT ![j] =
                               [operation_advice |-> "",
                                report_markdown |-> "md",
                                report_html |-> html]]
       /\ tasks' = CompleteRecord(tasks, Tid(j), t, j)
       /\ mloc' = [mloc EXCEPT ![j] = NoLocals]
       /\ Goto(j, "log_done")
       /\ UNCHANGED << poolVars, subVars, order, logBy, wrote, otherVars >>
       /\ Observe

\* run_market_review(...) returned None or "" (it catches what it raises)
M_Empty(j) ==
    \E t \in clock..MaxClock :
       /\ Now(t)
       /\ IsMarket(j)
       /\ jpc[j] = "m_review"
       /\ tasks' = FailRecord(tasks, Tid(j), t, EmptyReviewMsg)
       /\ mloc' = [mloc EXCEPT ![j] = NoLocals]
       /\ Goto(j, "log_empty")
       /\ wrote' = [wrote EXCEPT ![j] = << >>]
       /\ UNCHANGED << poolVars, subVars, order, logBy, resultData,
                       otherVars >>
       /\ Observe

\* the imports or get_config() raised: except Exception as e
M_Except(j) ==
    \E t \in clock..MaxClock :
       /\ Now(t)
       /\ IsMarket(j)
       /\ jpc[j] = "m_search"
       /\ \E e \in ExcTexts : tasks' = FailRecord(tasks, Tid(j), t, e)
       /\ Goto(j, "log_except")
       /\ wrote' = [wrote EXCEPT ![j] = << >>]
       /\ UNCHANGED << poolVars, subVars, order, mloc, logBy, resultData,
                       otherVars >>
       /\ Observe

M_LogDone(j) ==
    /\ IsMarket(j)
    /\ LastLogStep(j, "log_done", "INFO", "done")

M_LogEmpty(j) ==
    /\ IsMarket(j)
    /\ LastLogStep(j, "log_empty", "ERROR", "failed")

M_LogExcept(j) ==
    /\ IsMarket(j)
    /\ LastLogStep(j, "log_except", "ERROR", "failed")

(* --------------------------- specification ----------------------------- *)
SubmitNext(s) ==
    \/ SubmitBegin(s)
    \/ ExecutorCheck(s)
    \/ ExecutorCreate(s)
    \/ Submit(s)

AnalysisNext(j) ==
    \/ A_LogInit(j)
    \/ A_LogFetch(j)
    \/ A_FetchData(j)
    \/ A_LogAnalyze(j)
    \/ A_Analyze(j)
    \/ A_Empty(j)
    \/ A_LogRender(j)
    \/ A_RenderReport(j)
    \/ A_RenderHtml(j)
    \/ A_WriteResult(j)
    \/ A_LogRendered(j)
    \/ A_LogNotify(j)
    \/ A_SendCall(j)
    \/ A_Send(j)
    \/ A_SendSkip(j)
    \/ A_Complete(j)
    \/ A_Except(j)
    \/ A_LogDone(j)
    \/ A_LogEmpty(j)
    \/ A_LogExcept(j)

MarketNext(j) ==
    \/ M_SearchInit(j)
    \/ M_AnalyzerInit(j)
    \/ M_LogRun(j)
    \/ M_Complete(j)
    \/ M_Empty(j)
    \/ M_Except(j)
    \/ M_LogDone(j)
    \/ M_LogEmpty(j)
    \/ M_LogExcept(j)

JobNext(j) ==
    \/ RunCreate(j)
    \/ RunLogStart(j)
    \/ AnalysisNext(j)
    \/ MarketNext(j)

WorkerNext ==
    \/ \E e \in Execs : StartJob(e)
    \/ \E j \in Jobs : JobNext(j)

Next ==
    \/ \E s \in Jobs : SubmitNext(s)
    \/ WorkerNext

Spec == Init /\ [][Next]_vars


\* the runs that fall within one clock reading, with the worker threads
\* scheduled: while a worker can start a job or a runner can take a step, one
\* of them eventually does
FairNext == Next /\ clock' = clock

FairSpec ==
    Init /\ [][FairNext]_vars /\ WF_vars(WorkerNext /\ clock' = clock)

(* ------------------- two analyses under one task_id -------------------- *)
\* two submit_analysis calls for one code at one clock reading have returned
\* (one task_id), and each job waits for a worker of its own
InitTwin ==
    /\ clock = 0
    /\ executor = 2
    /\ nexec = 2
    /\ queue = [e \in Execs |-> << e >>]
    /\ running = [e \in Execs |-> {}]
    /\ spc = [s \in Jobs |-> "returned"]
    /\ \E c \in Codes, rt \in ReportTypes :
          req \in [Jobs -> {AnalysisReq(c, rt, n, 0) : n \in BOOLEAN}]
    /\ jpc = [j \in Jobs |-> "queued"]
    /\ tasks = EmptyTasks
    /\ order = << >>
    /\ resultData = [j \in Jobs |-> NoResult]
    /\ rd = IdleReader
    /\ listed = NoListing
    /\ allLogs = << >>
    /\ http = NoHttp
    /\ mloc = [j \in Jobs |-> NoLocals]
    /\ logBy = EmptyTasks
    /\ wrote = [j \in Jobs |-> << >>]
    /\ call = NoCall
    /\ AuxInit

\* the positions the later of the two runs gets to while the other runs
TwinLatePcs == {"queued", "create", "log_start", "log_init"}

\* the two runs, within one clock reading; run MaxJobs is the slow one
TwinNext ==
    /\ WorkerNext
    /\ clock' = clock
    /\ jpc'[MaxJobs] \in TwinLatePcs

SpecTwin == InitTwin /\ [][TwinNext]_vars

(* --------------------------- status queries ---------------------------- *)
UnknownTid == TaskId("000000", 0)

\* get_task_status: `with self._tasks_lock: return self._tasks.get(task_id)`;
\* the caller gets the record dict itself, or None
Q_Get ==
    /\ rd.pc = "idle"
    /\ \E tid \in {Tid(s) : s \in {x \in Jobs : spc[x] = "returned"}}
                  \cup {UnknownTid} :
          rd' = IF tid \in DOMAIN tasks
                THEN [rd EXCEPT !.pc = "head", !.ref = tid,
                        !.seen = {ContentOf(tasks, resultData, tid)}]
                ELSE [rd EXCEPT !.pc = "absent", !.ref = tid]
    /\ UNCHANGED << clock, poolVars, subVars, jpc, tasks, order, mloc, logBy,
                    wrote, resultData, otherVars >>

\* handle_task_status -> JsonResponse: json.dumps(..., indent=2) walks the
\* dict it was given, key by key in insertion order, with no lock held; here
\* it has got as far as the keys up to "error" (the result_data object
\* included)
Q_ReadHead ==
    /\ rd.pc = "head"
    /\ rd' = [rd EXCEPT !.pc = "tail",
                        !.head = ContentOf(tasks, resultData, rd.ref)]
    /\ UNCHANGED << clock, poolVars, subVars, jpc, tasks, order, mloc, logBy,
                    wrote, resultData, otherVars >>

\* the rest of the walk: "stage", "progress", "logs" and, when set,
\* "end_time", as they are now
ServeView(head, cur) ==
    [rec |-> [head.rec EXCEPT !.stage = cur.rec.stage,
                              !.progress = cur.rec.progress,
                              !.logs = cur.rec.logs,
                              !.end_time = cur.rec.end_time],
     res |-> head.res]

\* the walk ends: a key added meanwhile ("end_time") makes the dict iterator
\* raise RuntimeError, else the body is sent
Q_ReadTail ==
    /\ rd.pc = "tail"
    /\ LET cur == ContentOf(tasks, resultData, rd.ref)
       IN rd' = IF (cur.rec.end_time = Absent) # (rd.head.rec.end_time = Absent)
                THEN [rd EXCEPT !.pc = "error"]
                ELSE [rd EXCEPT !.pc = "done",
                                !.view = ServeView(rd.head, cur)]
    /\ UNCHANGED << clock, poolVars, subVars, jpc, tasks, order, mloc, logBy,
                    wrote, resultData, otherVars >>

\* one submission and one status query, in any interleaving
InitRead ==
    /\ clock = 0
    /\ executor = 0
    /\ nexec = 0
    /\ queue = [e \in Execs |-> << >>]
    /\ running = [e \in Execs |-> {}]
    /\ spc = [s \in Jobs |-> IF s = 1 THEN "idle" ELSE "off"]
    /\ req = [s \in Jobs |-> NoReq]
    /\ jpc = [j \in Jobs |-> "idle"]
    /\ tasks = EmptyTasks
    /\ order = << >>
    /\ resultData = [j \in Jobs |-> NoResult]
    /\ rd = IdleReader
    /\ listed = NoListing
    /\ allLogs = << >>
    /\ http = NoHttp
    /\ mloc = [j \in Jobs |-> NoLocals]
    /\ logBy = EmptyTasks
    /\ wrote = [j \in Jobs |-> << >>]
    /\ call = NoCall
    /\ AuxInit

NextRead ==
    \/ Next
    \/ Q_Get
    \/ Q_ReadHead
    \/ Q_ReadTail

SpecRead == InitRead /\ [][NextRead]_vars

(* ------------------------- _append_task_log alone ---------------------- *)
\* calls of _append_task_log made in a run
MaxAppends == 3
\* the record starts with MaxTaskLogs - LogSlack .. MaxTaskLogs entries
LogSlack == 1

Levels == {"INFO", "WARNING", "ERROR"}
LogTid == TaskId("600519", 0)

LogSamples ==
    {[i \in 1..n |-> Entry(IF i % 3 = k THEN "WARNING" ELSE "INFO")] :
        n \in (MaxTaskLogs - LogSlack)..MaxTaskLogs, k \in 0..2}

InitLog ==
    /\ clock = 0
    /\ executor = 0
    /\ nexec = 0
    /\ queue = [e \in Execs |-> << >>]
    /\ running = [e \in Execs |-> {}]
    /\ spc = [s \in Jobs |-> "off"]
    /\ req = [s \in Jobs |-> NoReq]
    /\ jpc = [j \in Jobs |-> "idle"]
    /\ \E logs \in LogSamples :
          /\ tasks = (LogTid :>
                [NewRecord(AnalysisReq("600519", "simple", FALSE, 0), 0)
                    EXCEPT !.logs = logs])
          /\ allLogs = logs
    /\ order = << LogTid >>
    /\ resultData = [j \in Jobs |-> NoResult]
    /\ rd = IdleReader
    /\ listed = NoListing
    /\ http = NoHttp
    /\ mloc = [j \in Jobs |-> NoLocals]
    /\ logBy = EmptyTasks
    /\ wrote = [j \in Jobs |-> << >>]
    /\ call = NoCall
    /\ AuxInit

\* one call of _append_task_log, for the id of the record or for an id
\* that has no record
L_Append ==
    /\ Len(allLogs) < MaxTaskLogs + MaxAppends
    /\ \E tid \in {LogTid, UnknownTid}, level \in Levels,
          stage \in {None, "analyze"}, progress \in {NoProgress, 55} :
          /\ tasks' = AppendTaskLog(tasks, tid, level, stage, progress)
          /\ allLogs' = IF tid = LogTid THEN Append(allLogs, Entry(level))
                        ELSE allLogs
          /\ call' = [op |-> "append", tid |-> tid]
    /\ UNCHANGED << clock, poolVars, subVars, jpc, order, mloc, logBy, wrote,
                    resultData, rd, listed, http,
                    auxVars >>

SpecLog == InitLog /\ [][L_Append]_vars

(* ----------------------------- list_tasks alone ------------------------ *)
\* records in the registry
MaxRecords == 3
\* clock readings the records were started at: 0..ListMaxTime
ListMaxTime == 3
\* limits passed: -MaxLimit..MaxLimit
MaxLimit == 3

Min(a, b) == IF a < b THEN a ELSE b
Max(a, b) == IF a > b THEN a ELSE b

\* list.sort(key=start_time, reverse=True): stable, records with equal keys
\* keep their order
RECURSIVE InsertDesc(_, _)
InsertDesc(x, s) ==
    IF s = << >> THEN << x >>
    ELSE IF StrLess(Head(s).start_time, x.start_time) THEN << x >> \o s
    ELSE << Head(s) >> \o InsertDesc(x, Tail(s))

RECURSIVE SortDesc(_, _)
SortDesc(v, acc) ==
    IF v = << >> THEN acc ELSE SortDesc(Tail(v), InsertDesc(Head(v), acc))

\* tasks[:limit]
PySlice(s, limit) ==
    SubSeq(s, 1, IF limit >= 0 THEN Min(limit, Len(s))
                 ELSE Max(Len(s) + limit, 0))

\* the mutant leaves the sort out
ListTasksUnsorted(T, o, limit) ==
    PySlice([i \in 1..Len(o) |-> T[o[i]]], limit)

\* list_tasks(limit)
ListTasks(T, o, limit) ==
    PySlice(SortDesc([i \in 1..Len(o) |-> T[o[i]]], << >>), limit)

ListCodes == << "600519", "hk00700", "AAPL", "000001" >>

\* a registry of up to MaxRecords records, in insertion order, each with the
\* start_time of its last creation (a record created again keeps its place)
InitList ==
    /\ clock = 0
    /\ executor = 0
    /\ nexec = 0
    /\ queue = [e \in Execs |-> << >>]
    /\ running = [e \in Execs |-> {}]
    /\ spc = [s \in Jobs |-> "off"]
    /\ req = [s \in Jobs |-> NoReq]
    /\ jpc = [j \in Jobs |-> "idle"]
    /\ \E n \in 0..Min(MaxRecords, Len(ListCodes)) :
          \E ts \in [1..n -> 0..ListMaxTime] :
             /\ order = [i \in 1..n |-> TaskId(ListCodes[i], 0)]
             /\ tasks = [tid \in {TaskId(ListCodes[i], 0) : i \in 1..n} |->
                   LET i == CHOOSE k \in 1..n : TaskId(ListCodes[k], 0) = tid
                   IN NewRecord(AnalysisReq(ListCodes[i], "simple", FALSE, 0),
                                ts[i])]
    /\ resultData = [j \in Jobs |-> NoResult]
    /\ rd = IdleReader
    /\ listed = NoListing
    /\ allLogs = << >>
    /\ http = NoHttp
    /\ mloc = [j \in Jobs |-> NoLocals]
    /\ logBy = EmptyTasks
    /\ wrote = [j \in Jobs |-> << >>]
    /\ call = NoCall
    /\ AuxInit

L_List ==
    /\ \E limit \in (0 - MaxLimit)..MaxLimit :
          listed' = [limit |-> limit, out |-> ListTasks(tasks, order, limit)]
    /\ UNCHANGED << clock, poolVars, subVars, jpc, tasks, order, mloc, logBy,
                    wrote, resultData, rd, allLogs, http, call,
                    auxVars >>

SpecList == InitList /\ [][L_List]_vars

(* ------------------------- GET /tasks (handle_tasks) ------------------- *)
\* the fallback of handle_tasks
DefaultLimit == 20

Digits == << "0", "1", "2", "3", "4", "5", "6", "7", "8", "9" >>
IsDigit(c) == \E i \in 1..10 : Digits[i] = c
DigitVal(c) == (CHOOSE i \in 1..10 : Digits[i] = c) - 1

RECURSIVE Strip(_)
Strip(s) ==
    IF s = << >> THEN s
    ELSE IF Head(s) = " " THEN Strip(Tail(s))
    ELSE IF s[Len(s)] = " " THEN Strip(SubSeq(s, 1, Len(s) - 1))
    ELSE s

RECURSIVE DecVal(_, _)
DecVal(s, acc) ==
    IF s = << >> THEN acc ELSE DecVal(Tail(s), 10 * acc + DigitVal(Head(s)))

\* int(text): surrounding blanks ignored, an optional sign, then one or more
\* decimal digits; anything else raises ValueError (ok = FALSE)
PyInt(text) ==
    LET s == Strip(text)
        signed == s # << >> /\ Head(s) \in {"+", "-"}
        body == IF signed THEN Tail(s) ELSE s
    IN IF body # << >> /\ \A i \in 1..Len(body) : IsDigit(body[i])
       THEN [ok |-> TRUE,
             val |-> IF signed /\ Head(s) = "-" THEN 0 - DecVal(body, 0)
                     ELSE DecVal(body, 0)]
       ELSE [ok |-> FALSE, val |-> 0]

\* query.get("limit", ["20"]): the parameter is not given
NoArg == << "None" >>

\* the limit parameters requests come with
LimitArgs ==
    {NoArg, << "2" >>, << "0" >>, << "2", "0" >>, << " ", "1" >>,
     << "+", "3" >>, << "-", "1" >>, << "-", "2" >>, << "a" >>, << >>,
     << "1", ".", "5" >>, << "-" >>}

\* try: limit = int(limit_list[0]) except ValueError: limit = 20
EffectiveLimit(arg) ==
    LET text == IF arg = NoArg THEN << "2", "0" >> ELSE arg
    IN IF PyInt(text).ok THEN PyInt(text).val ELSE DefaultLimit

\* handle_tasks: JsonResponse({"success": True, "tasks": list_tasks(limit)})
H_Tasks ==
    /\ \E arg \in LimitArgs :
          http' = [route |-> "tasks", arg |-> arg, status |-> 200,
                   limit |-> EffectiveLimit(arg),
                   out |-> ListTasks(tasks, order, EffectiveLimit(arg))]
    /\ UNCHANGED << clock, poolVars, subVars, jpc, tasks, order, mloc, logBy,
                    wrote, resultData, rd, listed, allLogs, call,
                    auxVars >>

SpecTasks == InitList /\ [][H_Tasks]_vars

(* -------------------- GET /analysis (handle_analysis) ------------------ *)
Uppers == << "A", "B", "C", "D", "E", "F", "H", "K", "L", "P" >>
Lowers == << "a", "b", "c", "d", "e", "f", "h", "k", "l", "p" >>
IsUpper(c) == \E i \in 1..Len(Uppers) : Uppers[i] = c
IsLower(c) == \E i \in 1..Len(Lowers) : Lowers[i] = c
LowerChar(c) ==
    IF IsUpper(c) THEN Lowers[CHOOSE i \in 1..Len(Uppers) : Uppers[i] = c]
    ELSE c
UpperChar(c) ==
    IF IsLower(c) THEN Uppers[CHOOSE i \in 1..Len(Lowers) : Lowers[i] = c]
    ELSE c
StrLower(s) == [i \in 1..Len(s) |-> LowerChar(s[i])]
StrUpper(s) == [i \in 1..Len(s) |-> UpperChar(s[i])]
AllDigits(s) == \A i \in 1..Len(s) : IsDigit(s[i])
AllUppers(s) == \A i \in 1..Len(s) : IsUpper(s[i])

\* code_list[0].strip().lower()
NormalCode(arg) == StrLower(Strip(arg))

\* re.match(r'^\d{6}$', code)
IsAStock(c) == Len(c) = 6 /\ AllDigits(c)
\* re.match(r'^hk\d{5}$', code)
IsHkStock(c) ==
    Len(c) = 7 /\ c[1] = "h" /\ c[2] = "k" /\ AllDigits(SubSeq(c, 3, 7))
\* re.match(r'^[A-Z]{1,5}(\.[A-Z])?$', code.upper())
IsUsStock(c) ==
    LET u == StrUpper(c)
    IN \/ Len(u) \in 1..5 /\ AllUppers(u)
       \/ /\ Len(u) \in 3..7
          /\ AllUppers(SubSeq(u, 1, Len(u) - 2))
          /\ u[Len(u) - 1] = "."
          /\ IsUpper(u[Len(u)])
\* re.match(r'^01\d{4}$', code): an off-exchange fund code
IsFundCode(c) == IsAStock(c) /\ c[1] = "0" /\ c[2] = "1"

\* the mutant checks only that the parameter is there
AcceptsCodePresent(arg) == arg # NoArg /\ Strip(arg) # << >>

\* the checks of handle_analysis before it calls submit_analysis
AcceptsCode(arg) ==
    /\ arg # NoArg
    /\ Strip(arg) # << >>
    /\ ~IsFundCode(NormalCode(arg))
    /\ \/ IsAStock(NormalCode(arg))
       \/ IsHkStock(NormalCode(arg))
       \/ IsUsStock(NormalCode(arg))

\* the code parameters requests come with
CodeArgs ==
    {NoArg,
     << "6", "0", "0", "5", "1", "9" >>,
     << " ", "6", "0", "0", "5", "1", "9", " " >>,
     << "6", "0", "0", "5", "1" >>,
     << "6", "0", "0", "5", "1", "9", "0" >>,
     << "0", "1", "0", "0", "0", "1" >>,
     << "h", "k", "0", "0", "7", "0", "0" >>,
     << "H", "K", "0", "0", "7", "0", "0" >>,
     << "h", "k", "0", "0", "7", "0" >>,
     << "A", "A", "P", "L" >>,
     << "a", "a", "p", "l" >>,
     << "A", "B", "C", "D", "E", "F" >>,
     << "A", ".", "B" >>,
     << "6", "0", "a", "5", "1", "9" >>,
     << " " >>,
     << >>}

\* a request that fails a check: JsonResponse(..., BAD_REQUEST)
H_AnalysisReject ==
    /\ \E arg \in CodeArgs :
          /\ ~AcceptsCode(arg)
          /\ http' = [route |-> "analysis", arg |-> arg, status |-> 400,
                      limit |-> 0, out |-> << >>]
    /\ UNCHANGED << clock, poolVars, subVars, jpc, tasks, order, mloc, logBy,
                    wrote, resultData, rd, listed, allLogs, call,
                    auxVars >>

\* a request that passes: submit_analysis(code, report_type) is entered (the
\* response, status 200, follows its return)
H_AnalysisAccept(s) ==
    \E t \in clock..MaxClock :
       /\ Now(t)
       /\ spc[s] = "idle"
       /\ \A s0 \in Jobs : s0 < s => spc[s0] # "idle"
       /\ \E arg \in CodeArgs :
             /\ AcceptsCode(arg)
             /\ req' = [req EXCEPT ![s] =
                           AnalysisReq(NormalCode(arg), "simple", FALSE, t)]
             /\ http' = [route |-> "analysis", arg |-> arg, status |-> 0,
                         limit |-> 0, out |-> << >>]
       /\ spc' = [spc EXCEPT ![s] = "executor"]
       /\ UNCHANGED << poolVars, jpc, tasks, order, mloc, logBy, wrote,
                       resultData, rd, listed, allLogs, call,
                       auxVars >>

\* requests to /analysis up to the start of their jobs
NextHandle ==
    \/ H_AnalysisReject
    \/ \E s \in Jobs : H_AnalysisAccept(s)
    \/ \E s \in Jobs : ExecutorCheck(s)
    \/ \E s \in Jobs : ExecutorCreate(s)
    \/ \E s \in Jobs : Submit(s)
    \/ \E e \in Execs : StartJob(e)
    \/ \E j \in Jobs : RunCreate(j)

SpecHandle == Init /\ [][NextHandle]_vars

(* --------------------------- ConfigService ----------------------------- *)
\* texts are tuples of symbols: one-character strings, and the names of the
\* keys, each a symbol of its own
RECURSIVE LStrip(_)
LStrip(s) == IF s # << >> /\ Head(s) = " " THEN LStrip(Tail(s)) ELSE s

RECURSIVE RStrip(_)
RStrip(s) ==
    IF s # << >> /\ s[Len(s)] = " " THEN RStrip(SubSeq(s, 1, Len(s) - 1))
    ELSE s

\* str.find(c) + 1: the first position of c in s, 0 when there is none
IndexOf(s, c) ==
    IF \E i \in 1..Len(s) : s[i] = c
    THEN CHOOSE i \in 1..Len(s) : s[i] = c /\ \A k \in 1..(i - 1) : s[k] # c
    ELSE 0

\* str.split(c)
RECURSIVE Split(_, _)
Split(s, c) ==
    LET i == IndexOf(s, c)
    IN IF i = 0 THEN << s >>
       ELSE << SubSeq(s, 1, i - 1) >> \o Split(SubSeq(s, i + 1, Len(s)), c)

\* str.splitlines(): no empty last line after a closing line break
SplitLines(text) ==
    IF text = << >> THEN << >>
    ELSE IF text[Len(text)] = "\n"
         THEN Split(SubSeq(text, 1, Len(text) - 1), "\n")
         ELSE Split(text, "\n")

\* sep.join(parts)
RECURSIVE Join(_, _)
Join(parts, sep) ==
    IF parts = << >> THEN << >>
    ELSE IF Len(parts) = 1 THEN parts[1]
    ELSE parts[1] \o sep \o Join(Tail(parts), sep)

\* v[1:-1] when v starts and ends with the same kind of quote
Unquote(v) ==
    IF v # << >> /\ \/ (v[1] = "\"" /\ v[Len(v)] = "\"")
                    \/ (v[1] = "'" /\ v[Len(v)] = "'")
    THEN SubSeq(v, 2, Len(v) - 1)
    ELSE v

\* re.match(r"^(?P<prefix>\s*KEY\s*=\s*)(?P<value>.*?)(?P<suffix>\s*)$", line)
KeyMatch(line, key) ==
    LET a == LStrip(line)
        hasKey == Len(a) >= Len(key) /\ SubSeq(a, 1, Len(key)) = key
        b == LStrip(SubSeq(a, Len(key) + 1, Len(a)))
        hasEq == b # << >> /\ Head(b) = "="
        rest == LStrip(Tail(b))
        value == RStrip(rest)
    IN IF hasKey /\ hasEq
       THEN [ok |-> TRUE,
             prefix |-> SubSeq(line, 1, Len(line) - Len(rest)),
             value |-> value,
             suffix |-> SubSeq(rest, Len(value) + 1, Len(rest))]
       ELSE [ok |-> FALSE, prefix |-> << >>, value |-> << >>,
             suffix |-> << >>]

\* one line of _parse_env_text: comment lines, lines without "=" and lines
\* without a key are skipped
ParseLine(raw) ==
    LET line == Strip(raw)
        i == IndexOf(line, "=")
        k == Strip(SubSeq(line, 1, i - 1))
        v == Strip(SubSeq(line, i + 1, Len(line)))
    IN IF line = << >> \/ Head(line) = "#" \/ i = 0 \/ k = << >>
       THEN [ok |-> FALSE, k |-> << >>, v |-> << >>]
       ELSE [ok |-> TRUE, k |-> k, v |-> Unquote(v)]

\* _parse_env_text(env_text).get(key): the last line of the key counts; None
\* is << None >>
ParseEnvGet(text, key) ==
    LET lines == SplitLines(text)
        hits == {i \in 1..Len(lines) :
                    ParseLine(lines[i]).ok /\ ParseLine(lines[i]).k = key}
    IN IF hits = {} THEN << None >>
       ELSE ParseLine(lines[CHOOSE i \in hits : \A h \in hits : h <= i]).v

\* get_env_values on a file with content text; keys: << <<key, default>> >>
GetEnvValues(text, keys) ==
    [i \in 1..Len(keys) |->
        IF ParseEnvGet(text, keys[i][1]) = << None >> THEN keys[i][2]
        ELSE ParseEnvGet(text, keys[i][1])]

\* _update_env_kv; updates: << <<key, value>> >>, in the order of the dict
UpdateEnvKv(text, updates) ==
    LET lines == SplitLines(text)
        skipped(line) ==
            \/ (LStrip(line) # << >> /\ Head(LStrip(line)) = "#")
            \/ IndexOf(line, "=") = 0
        hit(line) ==
            IF skipped(line) THEN 0
            ELSE IF \E u \in 1..Len(updates) : KeyMatch(line, updates[u][1]).ok
            THEN CHOOSE u \in 1..Len(updates) :
                    /\ KeyMatch(line, updates[u][1]).ok
                    /\ \A w \in 1..(u - 1) : ~KeyMatch(line, updates[w][1]).ok
            ELSE 0
        newLine(line) ==
            IF hit(line) = 0 THEN line
            ELSE KeyMatch(line, updates[hit(line)][1]).prefix
                 \o updates[hit(line)][2]
                 \o KeyMatch(line, updates[hit(line)][1]).suffix
        kept == [i \in 1..Len(lines) |-> newLine(lines[i])]
        replaced == {hit(lines[i]) : i \in 1..Len(lines)}
        isMissing(u) == u[1] \notin {updates[r][1] : r \in replaced \ {0}}
        missing == SelectSeq(updates, isMissing)
        added == [i \in 1..Len(missing) |->
                     missing[i][1] \o << "=" >> \o missing[i][2]]
        \* an empty line is put in when the last line is not blank
        separated == IF kept # << >> /\ Strip(kept[Len(kept)]) # << >>
                     THEN Append(kept, << >>) ELSE kept
        outLines == IF missing = << >> THEN kept ELSE separated \o added
        \* env_text.endswith("\n") if env_text else True
        trailing == IF text # << >> THEN text[Len(text)] = "\n" ELSE TRUE
    IN Join(outLines, << "\n" >>)
       \o (IF trailing THEN << "\n" >> ELSE << >>)

\* _extract_stock_list: the value of the first STOCK_LIST line, stripped and
\* without its quotes
ExtractStockList(text) ==
    LET lines == SplitLines(text)
        hits == {i \in 1..Len(lines) :
                    KeyMatch(lines[i], << "STOCK_LIST" >>).ok}
    IN IF hits = {} THEN << >>
       ELSE Unquote(Strip(KeyMatch(
                lines[CHOOSE i \in hits : \A h \in hits : i <= h],
                << "STOCK_LIST" >>).value))

\* _normalize_stock_list: line breaks become commas, the items are stripped,
\* the empty ones dropped
NormalizeStockList(value) ==
    LET commas == [i \in 1..Len(value) |->
                      IF value[i] = "\n" THEN "," ELSE value[i]]
        parts == Split(commas, ",")
        stripped == [i \in 1..Len(parts) |-> Strip(parts[i])]
        nonEmpty(p) == p # << >>
    IN Join(SelectSeq(stripped, nonEmpty), << "," >>)

\* _update_stock_list
UpdateStockList(text, newValue) ==
    LET lines == SplitLines(text)
        newLine(line) ==
            IF KeyMatch(line, << "STOCK_LIST" >>).ok
            THEN KeyMatch(line, << "STOCK_LIST" >>).prefix \o newValue
                 \o KeyMatch(line, << "STOCK_LIST" >>).suffix
            ELSE line
        kept == [i \in 1..Len(lines) |-> newLine(lines[i])]
        replaced ==
            \E i \in 1..Len(lines) : KeyMatch(lines[i], << "STOCK_LIST" >>).ok
        \* an empty line is put in when the last line is not blank
        separated == IF kept # << >> /\ Strip(kept[Len(kept)]) # << >>
                     THEN Append(kept, << >>) ELSE kept
        outLines == IF replaced THEN kept
                    ELSE Append(separated, << "STOCK_LIST", "=" >> \o newValue)
        \* env_text.endswith("\n") if env_text else True
        trailing == IF text # << >> THEN text[Len(text)] = "\n" ELSE TRUE
    IN Join(outLines, << "\n" >>)
       \o (IF trailing THEN << "\n" >> ELSE << >>)

(* ------------------------ ConfigService, its calls --------------------- *)
\* lines per sample file
MaxEnvLines == 2
\* ConfigService calls per run
MaxConfigCalls == 2

\* lines .env files are made of: a comment, an empty line, key lines plain,
\* quoted and padded, a key commented out, a key nobody updates
LineSamples ==
    {<< "#", "c" >>,
     << >>,
     << "STOCK_LIST" >> \o << "=", "a" >>,
     << " ", "STOCK_LIST", " ", "=", " ", "\"", "a", "\"", " " >>,
     << "#" >> \o << "STOCK_LIST" >> \o << "=", "a" >>,
     << "SCHEDULE_TIME" >> \o << "=", "1", "8", ":", "0", "0" >>,
     << "SCHEDULE_ENABLED" >> \o << " ", "=", "'", "false", "'" >>,
     << "GEMINI_API_KEY", "=", "k" >>}

\* files of at most MaxEnvLines lines, with and without the closing line break
EnvSamples ==
    LET seqs == UNION {[1..n -> LineSamples] : n \in 0..MaxEnvLines}
    IN {Join(ls, << "\n" >>) : ls \in seqs}
       \cup {Join(ls, << "\n" >>) \o << "\n" >> : ls \in seqs}

\* the (KEY, default) pairs PageHandler asks for
CommonKeys ==
    << << << "SCHEDULE_ENABLED" >>, << "false" >> >>,
       << << "SCHEDULE_TIME" >>, << "1", "8", ":", "0", "0" >> >>,
       << << "MARKET_REVIEW_ENABLED" >>, << "true" >> >> >>

\* dicts passed to update_env_values, as (KEY, value) pairs in dict order
UpdateSamples ==
    {<< << << "SCHEDULE_ENABLED" >>, << "true" >> >>,
        << << "SCHEDULE_TIME" >>, << "0", "9", ":", "3", "0" >> >>,
        << << "MARKET_REVIEW_ENABLED" >>, << "false" >> >> >>,
     << << << "SCHEDULE_TIME" >>, << "0", "9", ":", "3", "0" >> >> >>,
     << << << "SCHEDULE_ENABLED" >>, << >> >> >>,
     << << << "SCHEDULE_TIME" >>, << "\"", "9", "\"" >> >> >>}

\* stock lists handed to set_stock_list: every text of up to two symbols, and
\* some longer ones
StockSymbols == {"a", ",", " ", "\n", "\""}
StockInputs ==
    UNION {[1..n -> StockSymbols] : n \in 0..2}
    \cup {<< "a", ",", "b" >>, << "a", "\n", "b" >>, << "\"", "a", "\"" >>,
          << " ", "a", " ", ",", ",", "b", "\n" >>}

InitConfig ==
    /\ ServiceInit
    /\ InstInit
    /\ PageInit
    /\ env \in EnvSamples
    /\ backup = << >>
    /\ cfg = NoCfg
    /\ page = NoPage

\* the record of a call, after the one before it
Called(op, arg, ret) ==
    [op |-> op, arg |-> arg, ret |-> ret, before |-> env,
     prevOp |-> cfg.op, prevArg |-> cfg.arg, prevRet |-> cfg.ret,
     calls |-> cfg.calls + 1]

\* update_env_values(updates): read_env_text, _update_env_kv, write_env_text
CS_UpdateEnvValues ==
    /\ cfg.calls < MaxConfigCalls
    /\ \E updates \in UpdateSamples :
          /\ env' = UpdateEnvKv(env, updates)
          /\ cfg' = Called("update_env_values", updates, << >>)
    /\ UNCHANGED << serviceVars, instVars, pageVars, backup, page >>

\* get_env_values(keys) for the keys of the last update, or for the common
\* ones
CS_GetEnvValues ==
    /\ cfg.calls < MaxConfigCalls
    /\ LET keys == IF cfg.op = "update_env_values"
                   THEN [i \in 1..Len(cfg.arg) |->
                            << cfg.arg[i][1], << "default" >> >>]
                   ELSE CommonKeys
       IN cfg' = Called("get_env_values", keys, GetEnvValues(env, keys))
    /\ UNCHANGED << serviceVars, instVars, pageVars, env, backup, page >>

\* set_stock_list(stock_list): read_env_text, _normalize_stock_list,
\* _update_stock_list, write_env_text; returns the normalized list
CS_SetStockList ==
    /\ cfg.calls < MaxConfigCalls
    /\ \E s \in StockInputs :
          /\ env' = UpdateStockList(env, NormalizeStockList(s))
          /\ cfg' = Called("set_stock_list", s, NormalizeStockList(s))
    /\ UNCHANGED << serviceVars, instVars, pageVars, backup, page >>

\* get_stock_list()
CS_GetStockList ==
    /\ cfg.calls < MaxConfigCalls
    /\ cfg' = Called("get_stock_list", << >>, ExtractStockList(env))
    /\ UNCHANGED << serviceVars, instVars, pageVars, env, backup, page >>

SpecConfig ==
    /\ InitConfig
    /\ [][
        \/ CS_UpdateEnvValues
        \/ CS_GetEnvValues
        \/ CS_SetStockList
        \/ CS_GetStockList
       ]_vars

C39_StockListRoundTrip ==
    [][cfg'.calls = cfg.calls + 1 =>
        /\ cfg'.op = "set_stock_list" =>
            LET old == SplitLines(env)
                new == SplitLines(env')
                IsStock(line) ==
                    ParseLine(line).ok /\ ParseLine(line).k = << "STOCK_LIST" >>
                Others(ls) == SelectSeq(ls, LAMBDA l : ~IsStock(l) /\ l # << >>)
                items == Split([i \in 1..Len(cfg'.arg) |->
                                   IF cfg'.arg[i] = "\n" THEN ","
                                   ELSE cfg'.arg[i]], ",")
                Kept(p) == Strip(p) # << >>
                kept == SelectSeq(items, Kept)
            IN /\ cfg'.ret = Join([i \in 1..Len(kept) |-> Strip(kept[i])],
                                  << "," >>)
               /\ NormalizeStockList(cfg'.ret) = cfg'.ret
               /\ \A j \in 1..Len(old) : ~IsStock(old[j]) => new[j] = old[j]
               /\ Others(new) = Others(old)
        /\ cfg.op = "set_stock_list" /\ cfg'.op = "get_stock_list" =>
            cfg'.ret = cfg.ret
      ]_vars

(* ------------------------ PageHandler, the .env pages ------------------ *)
\* requests per run
MaxRequests == 2

_LOOPBACK_IPS == {"127.0.0.1", "::1"}

\* addresses requests come from; Unreadable: reading client_address[0] raises
Clients ==
    {"127.0.0.1", "::1", "192.168.1.20", "::ffff:127.0.0.1", "unreadable"}

\* _is_loopback_request with every address taken for a loopback one
IsLoopbackRequestAlways(client) == TRUE

\* _is_loopback_request(handler)
IsLoopbackRequest(client) ==
    IF client = "unreadable" THEN FALSE ELSE client \in _LOOPBACK_IPS

\* re.match(r"^(?:[01]\\d|2[0-3]):[0-5]\\d$", st): in the raw string \\d is
\* a backslash followed by the letter d
MatchesScheduleTime(st) ==
    \/ /\ Len(st) = 7
       /\ st[1] \in {"0", "1"} /\ st[2] = "\\" /\ st[3] = "d"
       /\ st[4] = ":"
       /\ st[5] \in {"0", "1", "2", "3", "4", "5"}
       /\ st[6] = "\\" /\ st[7] = "d"
    \/ /\ Len(st) = 6
       /\ st[1] = "2" /\ st[2] \in {"0", "1", "2", "3"}
       /\ st[3] = ":"
       /\ st[4] \in {"0", "1", "2", "3", "4", "5"}
       /\ st[5] = "\\" /\ st[6] = "d"

\* SCHEDULE_TIME fields of the form; << None >>: the field is absent
TimeSamples ==
    {<< "1", "8", ":", "0", "0" >>,
     << "0", "9", ":", "3", "0" >>,
     << " ", "2", "3", ":", "5", "9" >>,
     << "2", "4", ":", "0", "0" >>,
     << "9", ":", "3", "0" >>,
     << >>,
     << "0", "\\", "d", ":", "0", "\\", "d" >>,
     << "2", "3", ":", "5", "\\", "d" >>,
     << None >>}

CommonForms ==
    [enabled : BOOLEAN, review : BOOLEAN, time : TimeSamples,
     text : {<< >>}]

\* env_text fields of the form of POST /env/update
EnvTexts ==
    {<< >>,
     << "GEMINI_API_KEY", "=", "k" >>,
     << "STOCK_LIST" >> \o << "=", "a", "\n" >>}

EnvForms ==
    [enabled : {FALSE}, review : {FALSE}, time : {<< None >>},
     text : EnvTexts]

\* the pages start from the files of at most one line
InitEnvPages ==
    /\ ServiceInit
    /\ InstInit
    /\ PageInit
    /\ env \in {e \in EnvSamples : Len(SplitLines(e)) <= 1}
    /\ backup = << >>
    /\ cfg = NoCfg
    /\ page = NoPage

\* the request and its response; shown: what the response carries of .env,
\* reads: how often the handler read the file, n: the requests so far
Exchange(route, client, form, status, shown, reads) ==
    [route |-> route, client |-> client, form |-> form, status |-> status,
     shown |-> shown, before |-> env, reads |-> reads, n |-> page.n + 1]

\* render_config_page(stock_list, env_filename, common_config=...)
ConfigShown(text) ==
    << ExtractStockList(text) >> \o GetEnvValues(text, CommonKeys)

BoolText(b) == IF b THEN << "true" >> ELSE << "false" >>

\* handle_env_editor: GET /env
H_EnvEditor ==
    /\ page.n < MaxRequests
    /\ \E client \in Clients :
          page' = IF ~IsLoopbackRequest(client)
                  THEN Exchange("/env", client, NoForm, 403, << >>, 0)
                  ELSE Exchange("/env", client, NoForm, 200, << env >>, 1)
    /\ UNCHANGED << serviceVars, instVars, pageVars, env, backup, cfg >>

\* handle_env_update: POST /env/update, with set_env_text; written: the
\* write of .env succeeds, saved: the write of the backup file succeeds
H_EnvUpdate ==
    /\ page.n < MaxRequests
    /\ \E client \in Clients, form \in EnvForms, written, saved \in BOOLEAN :
          IF ~IsLoopbackRequest(client)
          THEN /\ page' = Exchange("/env/update", client, form, 403,
                                   << >>, 0)
               /\ UNCHANGED << env, backup >>
          ELSE /\ backup' = IF saved THEN env ELSE backup
               /\ env' = IF ~written THEN env
                         ELSE IF form.text = << >>
                                 \/ form.text[Len(form.text)] = "\n"
                              THEN form.text
                              ELSE form.text \o << "\n" >>
               /\ page' = Exchange("/env/update", client, form,
                                   IF written THEN 200 ELSE 500, << >>, 1)
    /\ UNCHANGED << serviceVars, instVars, pageVars, cfg >>

\* handle_common_update: POST /common/update
H_CommonUpdate ==
    /\ page.n < MaxRequests
    /\ \E client \in Clients, form \in CommonForms :
          LET current == GetEnvValues(env, CommonKeys)
              st == Strip(IF form.time = << None >> THEN current[2]
                          ELSE form.time)
              updates ==
                  << << << "SCHEDULE_ENABLED" >>, BoolText(form.enabled) >>,
                     << << "SCHEDULE_TIME" >>, st >>,
                     << << "MARKET_REVIEW_ENABLED" >>,
                        BoolText(form.review) >> >>
          IN IF ~IsLoopbackRequest(client)
             THEN /\ page' = Exchange("/common/update", client, form, 403,
                                      << >>, 0)
                  /\ env' = env
             ELSE IF ~MatchesScheduleTime(st)
             THEN /\ page' = Exchange("/common/update", client, form, 400,
                                      ConfigShown(env), 2)
                  /\ env' = env
             ELSE /\ env' = UpdateEnvKv(env, updates)
                  /\ page' = Exchange("/common/update", client, form, 200,
                                      ConfigShown(UpdateEnvKv(env, updates)),
                                      4)
    /\ UNCHANGED << serviceVars, instVars, pageVars, backup, cfg >>

SpecEnvPages ==
    /\ InitEnvPages
    /\ [][
        \/ H_EnvEditor
        \/ H_EnvUpdate
        \/ H_CommonUpdate
       ]_vars

\* C36: GET /env, POST /env/update and POST /common/update are served only to
\* loopback clients (127.0.0.1 or ::1). A request from any other address, or
\* one whose address cannot be read, is answered with 403, and .env is
\* neither read out nor modified.
C36_LoopbackOnly ==
    /\ [](page.route \in {"/env", "/env/update", "/common/update"}
          /\ page.client \notin {"127.0.0.1", "::1"}
          => /\ page.status = 403
             /\ page.shown = << >>
             /\ page.reads = 0
             /\ env = page.before)
    /\ [][page'.client \notin {"127.0.0.1", "::1"}
          => env' = env /\ backup' = backup]_vars

\* POST /common/update with a well-formed time, from an address that maps
\* the loopback one without being in _LOOPBACK_IPS, was refused while .env
\* had content
C36_Witness ==
    /\ page.route = "/common/update"
    /\ page.client = "::ffff:127.0.0.1"
    /\ page.status = 403
    /\ page.before # << >>
    /\ page.form.time = << "1", "8", ":", "0", "0" >>

\* C37: POST /common/update from a loopback client accepts a SCHEDULE_TIME in
\* 24-hour HH:MM format (18:00, 09:30) and then writes SCHEDULE_ENABLED,
\* SCHEDULE_TIME and MARKET_REVIEW_ENABLED to .env; a SCHEDULE_TIME that is
\* not in HH:MM format is rejected with 400 and .env is left unchanged.
C37_ScheduleTimeChecked ==
    [](page.route = "/common/update"
       /\ page.client \in {"127.0.0.1", "::1"}
       /\ page.form.time # << None >>
       => LET st == Strip(page.form.time)
              IsHHMM ==
                  /\ Len(st) = 5
                  /\ st[3] = ":"
                  /\ \A i \in {1, 2, 4, 5} : IsDigit(st[i])
                  /\ st[1] \in {"0", "1"}
                     \/ (st[1] = "2" /\ st[2] \in {"0", "1", "2", "3"})
                  /\ st[4] \in {"0", "1", "2", "3", "4", "5"}
          IN IF IsHHMM
             THEN /\ page.status = 200
                  /\ GetEnvValues(env, CommonKeys)
                       = << BoolText(page.form.enabled), st,
                            BoolText(page.form.review) >>
             ELSE /\ page.status = 400
                  /\ env = page.before)

(* ------------------------ AnalysisService.get_instance ----------------- *)
\* a thread calls get_instance
G_Call(t) ==
    /\ gpc[t] \in {"idle", "done"}
    /\ gpc' = [gpc EXCEPT ![t] = "check"]
    /\ UNCHANGED << serviceVars, pageVars, configVars, instance, constructed,
                    ilock, got >>

\* `if cls._instance is None:` outside the lock
G_Check(t) ==
    /\ gpc[t] = "check"
    /\ gpc' = [gpc EXCEPT ![t] = IF instance = 0 THEN "acquire" ELSE "return"]
    /\ UNCHANGED << serviceVars, pageVars, configVars, instance, constructed,
                    ilock, got >>

\* `with cls._lock:` entered
G_Acquire(t) ==
    /\ gpc[t] = "acquire"
    /\ ilock = 0
    /\ ilock' = t
    /\ gpc' = [gpc EXCEPT ![t] = "recheck"]
    /\ UNCHANGED << serviceVars, pageVars, configVars, instance, constructed,
                    got >>

\* the mutant does not look again once it holds the lock
G_RecheckSkipped(t) ==
    /\ gpc[t] = "recheck"
    /\ gpc' = [gpc EXCEPT ![t] = "construct"]
    /\ UNCHANGED << serviceVars, pageVars, configVars, instance, constructed,
                    ilock, got >>

\* `if cls._instance is None:` under the lock
G_Recheck(t) ==
    /\ gpc[t] = "recheck"
    /\ gpc' = [gpc EXCEPT ![t] =
                  IF instance = 0 THEN "construct" ELSE "release"]
    /\ UNCHANGED << serviceVars, pageVars, configVars, instance, constructed,
                    ilock, got >>

\* `cls._instance = cls()`: the object is built, then the attribute is set
G_Construct(t) ==
    /\ gpc[t] = "construct"
    /\ constructed' = constructed + 1
    /\ instance' = constructed + 1
    /\ gpc' = [gpc EXCEPT ![t] = "release"]
    /\ UNCHANGED << serviceVars, pageVars, configVars, ilock, got >>

\* the with block is left
G_Release(t) ==
    /\ gpc[t] = "release"
    /\ ilock' = 0
    /\ gpc' = [gpc EXCEPT ![t] = "return"]
    /\ UNCHANGED << serviceVars, pageVars, configVars, instance, constructed,
                    got >>

\* `return cls._instance`
G_Return(t) ==
    /\ gpc[t] = "return"
    /\ got' = [got EXCEPT ![t] = instance]
    /\ gpc' = [gpc EXCEPT ![t] = "done"]
    /\ UNCHANGED << serviceVars, pageVars, configVars, instance, constructed,
                    ilock >>

SpecInst ==
    /\ Init
    /\ [][
        \E t \in Threads :
           \/ G_Call(t)
           \/ G_Check(t)
           \/ G_Acquire(t)
           \/ G_Recheck(t)
           \/ G_Construct(t)
           \/ G_Release(t)
           \/ G_Return(t)
       ]_vars

(* ----------------------- the page's polling loop ----------------------- *)
\* status === 'running' || status === 'pending' || !status
LocallyActive(task) == task.status \in {"running", "pending", None}

\* one run of pollAllTasks, called by the timer
P_Tick ==
    /\ pollInterval
    /\ IF LocallyActive(ptask)
       THEN IF ptask.pollCount + 1 > MAX_POLL_COUNT
            THEN /\ ptask' = [status |-> "failed", error |-> "timeout",
                              pollCount |-> ptask.pollCount + 1]
                 /\ UNCHANGED << pollInterval, sent, polled >>
            ELSE /\ ptask' = [ptask EXCEPT !.pollCount = @ + 1]
                 /\ sent' = sent + 1
                 /\ polled' = polled + 1
                 /\ UNCHANGED pollInterval
       ELSE /\ pollInterval' = FALSE
            /\ UNCHANGED << ptask, sent, polled >>
    /\ UNCHANGED << serviceVars, instVars, configVars, resp, server,
                    seenTerminal >>

\* the server answers one request with the status the record has then
S_Answer ==
    /\ sent > 0
    /\ sent' = sent - 1
    /\ resp' = [resp EXCEPT ![server] = @ + 1]
    /\ UNCHANGED << serviceVars, instVars, configVars, ptask, pollInterval,
                    server,
                    polled, seenTerminal >>

\* a request fails: .catch(() => {})
P_FetchFails ==
    /\ sent > 0
    /\ sent' = sent - 1
    /\ UNCHANGED << serviceVars, instVars, configVars, ptask, pollInterval,
                    resp, server,
                    polled, seenTerminal >>

\* an answer arrives, in any order: taskData.task = data.task
P_Response(st) ==
    /\ resp[st] > 0
    /\ resp' = [resp EXCEPT ![st] = @ - 1]
    /\ ptask' = [ptask EXCEPT !.status = st,
                              !.error = IF st = "failed" THEN "error" ELSE None]
    /\ seenTerminal' = (seenTerminal \/ st \in {"completed", "failed"})
    /\ UNCHANGED << serviceVars, instVars, configVars, pollInterval, sent,
                    server,
                    polled >>

\* the job on the server ends
S_Finish ==
    /\ server = "running"
    /\ \E st \in {"completed", "failed"} : server' = st
    /\ UNCHANGED << serviceVars, instVars, configVars, ptask, pollInterval,
                    sent, resp,
                    polled, seenTerminal >>

SpecPage ==
    /\ Init
    /\ [][
        \/ P_Tick
        \/ S_Answer
        \/ P_FetchFails
        \/ \E st \in ServerStatuses : P_Response(st)
        \/ S_Finish
       ]_vars

(* ------------------------------ properties ----------------------------- *)
Terminal == {"completed", "failed"}
StatusOf(T, tid) == IF tid \in DOMAIN T THEN T[tid].status ELSE "absent"
Range(q) == {q[i] : i \in 1..Len(q)}
Started(j) == jpc[j] \notin {"idle", "queued", "create"}

\* C1: the status of every record only moves along pending -> running ->
\* completed or pending -> running -> failed (a record may first be seen
\* pending or running); no other value or order occurs
C1_StatusPath ==
    [][\A tid \in DOMAIN tasks' :
          \/ StatusOf(tasks, tid) = StatusOf(tasks', tid)
          \/ << StatusOf(tasks, tid), StatusOf(tasks', tid) >> \in
                {<< "absent", "pending" >>, << "absent", "running" >>,
                 << "pending", "running" >>, << "running", "completed" >>,
                 << "running", "failed" >>}]_vars

\* C2: once the status of a record is completed or failed, no step changes it
C2_TerminalAbsorbing ==
    [][\A tid \in DOMAIN tasks :
          tasks[tid].status \in Terminal
              => tasks'[tid].status = tasks[tid].status]_vars

C4_BoundedConcurrency == Cardinality(Executing) <= MaxWorkers

\* C5: a request thread inside submit_* can always take its next step,
\* whatever is running or queued, and the job of a returned submission is in
\* a pool's queue until a worker takes it
C5_SubmitNeverWaits ==
    /\ \A s \in Jobs :
          spc[s] \in {"executor", "create_pool", "submit"}
              => ENABLED SubmitNext(s)
    /\ \A s \in Jobs :
          spc[s] = "returned" /\ jpc[s] = "queued"
              => \E e \in Execs : s \in Range(queue[e])

C5_Witness ==
    \E s \in Jobs, e \in Execs :
        /\ spc[s] = "returned"
        /\ jpc[s] = "queued"
        /\ Len(queue[e]) > 0
        /\ Head(queue[e]) = s
        /\ Cardinality(running[e]) >= MaxWorkers

\* the positions of a runner right after its update to a terminal status
PostTerminal == {"log_done", "log_empty", "log_except"}

\* C6: every job handed to a pool gets to the point where its runner has set
\* a terminal status in its record
C6_EventuallyTerminal ==
    \A j \in Jobs :
        (jpc[j] = "queued") ~>
            (jpc[j] \in PostTerminal /\ StatusOf(tasks, Tid(j)) \in Terminal)

C6_Witness ==
    /\ nexec = 1
    /\ \A j \in Jobs : jpc[j] = "done" /\ StatusOf(tasks, Tid(j)) \in Terminal

\* the positions of _run_analysis from which the next write is made without
\* self._tasks_lock
UnlockedPcs == {"render_md", "render_html"}

\* C8: a step a job runner takes without holding the registry lock leaves
\* the content reachable through the registry unchanged
C8_LockedWrites ==
    [][\A j \in Jobs :
          (jpc[j] \in UnlockedPcs /\ jpc'[j] # jpc[j])
              => Reachable' = Reachable]_vars


\* C7: the view a status query delivers equals the content the record had
\* at one instant of the query
C7_SnapshotView == rd.pc = "done" => rd.view \in rd.seen

\* C9: a record never has more than 200 log entries, and they are the most
\* recent ones handed to _append_task_log, in the order they were handed in
C9_LogsBounded ==
    \A tid \in DOMAIN tasks :
        LET logs == tasks[tid].logs
        IN /\ Len(logs) <= MaxTaskLogs
           /\ Len(logs) = Min(Len(allLogs), MaxTaskLogs)
           /\ \A i \in 1..Len(logs) :
                 logs[i] = allLogs[Len(allLogs) - Len(logs) + i]

C9_Witness ==
    /\ Len(allLogs) > MaxTaskLogs + 1
    /\ Len(tasks[LogTid].logs) = MaxTaskLogs
    /\ allLogs[1] # allLogs[Len(allLogs) - MaxTaskLogs]

SortedByStartDesc(out) ==
    \A i, k \in 1..Len(out) :
        i < k => ~StrLess(out[i].start_time, out[k].start_time)

NonNumericArgs == {<< "a" >>, << >>, << "1", ".", "5" >>, << "-" >>}
NegativeArgs == {<< "-", "1" >>, << "-", "2" >>}

\* C11: a /tasks request with a non-numeric or negative limit is answered
\* without an error, with the listing for the default limit of 20
C11_InvalidLimitDefault ==
    (http.route = "tasks" /\ http.arg \in NonNumericArgs \cup NegativeArgs)
        => /\ http.status = 200
           /\ http.limit = DefaultLimit
           /\ http.out = ListTasks(tasks, order, DefaultLimit)

\* C13: any two submissions have different task ids
C13_UniqueIds ==
    \A s1, s2 \in Jobs :
        (s1 # s2 /\ req[s1] # NoReq /\ req[s2] # NoReq) => Tid(s1) # Tid(s2)


\* every key of the dict literal a runner starts its record with has a value
FullyInitialised(rec, tid) ==
    /\ rec.task_id = tid
    /\ rec.code # None
    /\ rec.status \in {"running", "completed", "failed"}
    /\ rec.start_time # Absent
    /\ rec.report_type # None
    /\ rec.send_notification \in BOOLEAN
    /\ rec.stage # None
    /\ rec.progress \in 0..100
    /\ rec.status = "running" => rec.end_time = Absent
    /\ rec.logs = << >> =>
          (rec.result = NoRef /\ rec.error = None /\ rec.progress = 0)

\* C12: a status query for an id that is not in the registry returns absence
\* and changes nothing, one for an id that is there returns its record, and
\* every record in the registry has all its initial fields set
C12_UnknownIdAbsent ==
    [][/\ (rd.pc = "idle" /\ rd'.pc # "idle") =>
             /\ tasks' = tasks
             /\ order' = order
             /\ rd'.ref \notin DOMAIN tasks => rd'.pc = "absent"
             /\ rd'.ref \in DOMAIN tasks =>
                   /\ rd'.pc = "head"
                   /\ FullyInitialised(tasks[rd'.ref], rd'.ref)
       /\ \A tid \in DOMAIN tasks' : FullyInitialised(tasks'[tid], tid)]_vars

C12_Witness ==
    /\ rd.pc = "absent"
    /\ rd.ref = UnknownTid
    /\ \E tid \in DOMAIN tasks : tasks[tid].logs = << >>


\* code parameters that are missing or of none of the three formats
MalformedCodeArgs ==
    {NoArg,
     << "6", "0", "0", "5", "1" >>,
     << "6", "0", "0", "5", "1", "9", "0" >>,
     << "h", "k", "0", "0", "7", "0" >>,
     << "A", "B", "C", "D", "E", "F" >>,
     << "6", "0", "a", "5", "1", "9" >>,
     << " " >>,
     << >>}

\* C14: a request to /analysis without a code, or with a malformed one, is
\* answered 400, and nothing else changes: no record, no request taken up, no
\* job handed to a pool
C14_RejectedBeforeRecord ==
    [][(http' # http /\ http'.route = "analysis"
            /\ http'.arg \in MalformedCodeArgs)
          => /\ http'.status = 400
             /\ UNCHANGED << tasks, order, poolVars, subVars, jpc,
                             resultData >>]_vars

C14_Witness ==
    /\ http.status = 400
    /\ http.arg \in MalformedCodeArgs \ {NoArg, << >>}
    /\ DOMAIN tasks # {}
    /\ \E e \in Execs : queue[e] # << >>


\* C15: when the runner of a job that went through its exception handler
\* returns, the record is failed with the exception text as error, in stage
\* failed at progress 100
C15_ExceptionFails ==
    [][\A j \in Jobs :
          (jpc[j] = "log_except" /\ jpc'[j] = "done")
              => /\ tasks'[Tid(j)].status = "failed"
                 /\ tasks'[Tid(j)].error \in ExcTexts
                 /\ tasks'[Tid(j)].stage = "failed"
                 /\ tasks'[Tid(j)].progress = 100]_vars


\* the runner of job j returns
Returns(j) == jpc[j] # "done" /\ jpc'[j] = "done"
LastLog(T, tid) == T[tid].logs[Len(T[tid].logs)]
\* pipeline.analyze_stock of job j has returned a result
Analysed(j) == resultData[j] # NoResult

\* C16: a failed data fetch of an analysis job appends a WARNING in stage
\* fetch_data and the job goes on to analyze; when the analysis then returns
\* a result, the job ends completed
C16_FetchFailureNotFatal ==
    [][\A j \in Jobs :
          IsAnalysis(j) =>
             /\ (jpc[j] = "fetch" /\ jpc'[j] # "fetch")
                   => \/ jpc'[j] = "log_except"
                      \/ /\ jpc'[j] = "log_analyze"
                         /\ LastLog(tasks', Tid(j)).level
                               \in {"INFO", "WARNING"}
                         /\ tasks'[Tid(j)].stage = "fetch_data"
             /\ (/\ Returns(j)
                 /\ Analysed(j)
                 /\ Len(tasks[Tid(j)].logs) >= 4
                 /\ tasks[Tid(j)].logs[4].level = "WARNING")
                   => tasks'[Tid(j)].status = "completed"]_vars

\* C17: when the report text could not be produced after a successful
\* analysis, the job ends completed with the result stored and the empty
\* string as its report
C17_RenderFailureCompletes ==
    [][\A j \in Jobs :
          (IsAnalysis(j) /\ Returns(j) /\ resultData[j].report_markdown = "")
              => /\ tasks'[Tid(j)].status = "completed"
                 /\ tasks'[Tid(j)].result = j
                 /\ ContentOf(tasks', resultData', Tid(j)).res.report_markdown
                       = ""]_vars

\* C18: an analysis job whose analysis returned a result ends completed,
\* whatever the notifier's availability check and send do
C18_NotifyKeepsStatus ==
    [][\A j \in Jobs :
          (IsAnalysis(j) /\ Returns(j) /\ Analysed(j))
              => tasks'[Tid(j)].status = "completed"]_vars

\* the positions of _run_analysis in the notify stage
NotifyPcs == {"send", "sending"}

\* C19 as stated: a job is in the notify stage only when notification is
\* configured for it and the report text was produced
C19_NotifyAfterRender ==
    \A j \in Jobs :
        jpc[j] \in NotifyPcs
            => /\ req[j].send_notification
               /\ resultData[j].report_markdown \notin {None, ""}

\* C19 as amended: a job is in the notify stage only when notification is
\* configured for it and the rendering step is over, whether it produced a
\* report or not; send is called only with a non-empty report
C19_SendNeedsReport ==
    \A j \in Jobs :
        /\ jpc[j] \in NotifyPcs
              => /\ req[j].send_notification
                 /\ resultData[j].report_markdown # None
                 /\ resultData[j].report_html # None
        /\ jpc[j] = "sending" => resultData[j].report_markdown \notin {None, ""}

C19_Witness ==
    \E j \in Jobs :
        /\ jpc[j] = "complete"
        /\ resultData[j].report_markdown = ""
        /\ tasks[Tid(j)].stage = "notify"
        /\ tasks[Tid(j)].progress = 97
        /\ LastLog(tasks, Tid(j)).level = "WARNING"

\* C20: a market-review job whose review came back empty ends failed, with
\* a non-empty error and no result
C20_EmptyReviewFails ==
    [][\A j \in Jobs :
          (IsMarket(j) /\ jpc[j] = "log_empty" /\ Returns(j))
              => /\ tasks'[Tid(j)].status = "failed"
                 /\ tasks'[Tid(j)].error \notin {None, ""}
                 /\ tasks'[Tid(j)].result = NoRef]_vars


\* C22: a record has an end_time exactly when its status is completed or
\* failed
C22_EndTimeIffTerminal ==
    \A tid \in DOMAIN tasks :
        (tasks[tid].end_time # Absent) <=> (tasks[tid].status \in Terminal)

C22_Witness ==
    \E t1, t2 \in DOMAIN tasks :
        /\ tasks[t1].status = "failed"
        /\ tasks[t1].end_time # Absent
        /\ tasks[t2].status = "running"
        /\ tasks[t2].end_time = Absent
        /\ tasks[t2].progress > 0

\* C23: a record carries an error only when its status is failed
C23_ErrorOnlyWhenFailed ==
    \A tid \in DOMAIN tasks :
        tasks[tid].error # None => tasks[tid].status = "failed"

\* C24: every failed record carries a non-empty error text
C24_FailedHasErrorText ==
    \A tid \in DOMAIN tasks :
        tasks[tid].status = "failed" => tasks[tid].error \notin {None, ""}

\* C26: a record seen completed is in stage done at progress 100, and one
\* seen failed is in stage failed at progress 100
C26_TerminalIsFinal ==
    \A tid \in DOMAIN tasks :
        /\ tasks[tid].status = "completed"
              => (tasks[tid].stage = "done" /\ tasks[tid].progress = 100)
        /\ tasks[tid].status = "failed"
              => (tasks[tid].stage = "failed" /\ tasks[tid].progress = 100)


\* a worker has taken job j from its queue
Taken(j) == jpc[j] \notin {"idle", "queued"}

\* C29: no step removes a record from the registry or its id from the
\* listing order, no step takes a started job back or away, and every
\* started job gets to the point where it has set a terminal status
C29_NoRemovalNoCancel ==
    /\ [][/\ DOMAIN tasks \subseteq DOMAIN tasks'
          /\ Len(order) <= Len(order')
          /\ SubSeq(order', 1, Len(order)) = order
          /\ \A j \in Jobs :
                /\ Taken(j) => jpc'[j] \notin {"idle", "queued"}
                /\ (Taken(j) /\ jpc[j] # "done")
                      => j \in UNION {running'[e] : e \in Execs}
                             \/ jpc'[j] = "done"]_vars
    /\ \A j \in Jobs :
          (Taken(j) /\ jpc[j] \notin PostTerminal \cup {"done"}) ~>
              (jpc[j] \in PostTerminal /\ StatusOf(tasks, Tid(j)) \in Terminal)

C29_Witness ==
    /\ Cardinality(DOMAIN tasks) = 2
    /\ \A j \in Jobs : jpc[j] = "done"
    /\ \E t1, t2 \in DOMAIN tasks :
          tasks[t1].status = "completed" /\ tasks[t2].status = "failed"

\* job j takes the except branch of one of the two optional set-ups: it
\* appends an entry and moves on to the next set-up
FailedInit(j) ==
    /\ IsMarket(j)
    /\ Tid(j) \in DOMAIN logBy
    /\ \/ jpc[j] = "m_search" /\ jpc'[j] = "m_analyzer"
       \/ jpc[j] = "m_analyzer" /\ jpc'[j] = "m_log_run"
    /\ logBy'[Tid(j)] = Append(logBy[Tid(j)], j)

\* C21: when the search service or the AI analyzer of a market-review
\* job cannot be set up, a WARNING is logged, the job's status stays
\* running, and the collaborator that is handed to the review stays absent
C21_InitFailureTolerated ==
    [][\A j \in Jobs :
          FailedInit(j) =>
             /\ LastLog(tasks', Tid(j)).level = "WARNING"
             /\ StatusOf(tasks', Tid(j)) = "running"
             /\ jpc[j] = "m_search" => mloc'[j].search = None
             /\ jpc[j] = "m_analyzer" => mloc'[j].analyzer = None]_vars

\* C27: with jobs running concurrently, the log of every record holds only
\* entries appended by the one job that owns the record; entries of one job
\* never appear among another job's
C27_LogsOwnEntries ==
    \A tid \in DOMAIN tasks :
       /\ Len(logBy[tid]) = Len(tasks[tid].logs)
       /\ \A i, k \in 1..Len(logBy[tid]) : logBy[tid][i] = logBy[tid][k]

\* C28: _append_task_log for an id that has no record creates no record
\* and leaves every existing record, and the order of the records, as it is
C28_AppendUnknownNoOp ==
    [][(call'.op = "append" /\ call'.tid \notin DOMAIN tasks)
          => (tasks' = tasks /\ order' = order)]_vars

C28_Witness ==
    /\ call.op = "append"
    /\ call.tid = UnknownTid
    /\ UnknownTid \notin DOMAIN tasks
    /\ Len(tasks[LogTid].logs) = MaxTaskLogs
    /\ Len(allLogs) > MaxTaskLogs

IsPrefix(a, b) == Len(a) <= Len(b) /\ a = SubSeq(b, 1, Len(a))

\* stage and progress as _run_analysis writes them when nothing is sent:
\* the record starts at init 0, and the pipeline set-up is logged at init 8
WrittenQuiet ==
    << << "init", 0 >>, << "init", 3 >>, << "init", 8 >>,
       << "fetch_data", 18 >>, << "fetch_data", 35 >>, << "analyze", 55 >>,
       << "render_report", 85 >>, << "render_report", 92 >>,
       << "done", 100 >> >>
\* and with the notification stage
WrittenNotify ==
    SubSeq(WrittenQuiet, 1, 8) \o
    << << "notify", 95 >>, << "notify", 97 >>, << "done", 100 >> >>

\* what run j has written, with the closing entry it writes in this step
WroteAtReturn(j) ==
    Append(wrote[j], << tasks'[Tid(j)].stage, tasks'[Tid(j)].progress >>)

C30_ResultStays ==
    /\ \A j \in Jobs :
          (IsAnalysis(j) /\ Analysed(j)) =>
             /\ Tid(j) \in DOMAIN tasks
             /\ tasks[Tid(j)].result # NoRef
    /\ \A tid \in DOMAIN tasks :
          tasks[tid].status = "completed" => tasks[tid].result # NoRef

\* job j records its failure in this step
Fails(j) ==
    /\ jpc[j] \notin PostTerminal
    /\ jpc'[j] \in {"log_empty", "log_except"}

\* C31: the update that marks a record failed changes only status, end_time
\* and error (the closing entry after it only stage, progress and logs): a
\* result written before the failure stays in the failed record
C31_FailureKeepsResult ==
    [][\A j \in Jobs :
          /\ Fails(j) =>
                /\ tasks'[Tid(j)].result = tasks[Tid(j)].result
                /\ tasks' = [tasks EXCEPT
                                ![Tid(j)].status = "failed",
                                ![Tid(j)].end_time = tasks'[Tid(j)].end_time,
                                ![Tid(j)].error = tasks'[Tid(j)].error]
          /\ (jpc[j] \in {"log_empty", "log_except"} /\ Returns(j)) =>
                tasks' = [tasks EXCEPT
                             ![Tid(j)].stage = tasks'[Tid(j)].stage,
                             ![Tid(j)].progress = tasks'[Tid(j)].progress,
                             ![Tid(j)].logs = tasks'[Tid(j)].logs]]_vars

C31_Witness ==
    \E j \in Jobs :
       /\ IsAnalysis(j)
       /\ jpc[j] = "log_except"
       /\ tasks[Tid(j)].status = "failed"
       /\ tasks[Tid(j)].result = j
       /\ resultData[j].report_markdown # None

\* C32: an analysis job whose analyze_stock returned no result ends failed,
\* with a non-empty error, stage failed, progress 100 and no result
C32_EmptyAnalysisFails ==
    [][\A j \in Jobs :
          (IsAnalysis(j) /\ jpc[j] = "log_empty" /\ Returns(j))
              => /\ tasks'[Tid(j)].status = "failed"
                 /\ tasks'[Tid(j)].error \notin {None, ""}
                 /\ tasks'[Tid(j)].stage = "failed"
                 /\ tasks'[Tid(j)].progress = 100
                 /\ tasks'[Tid(j)].result = NoRef]_vars

\* C33: in every run of either runner the progress of every record lies in
\* 0..100 and never decreases from one state to the next
C33_ProgressMonotone ==
    /\ [](\A tid \in DOMAIN tasks : tasks[tid].progress \in 0..100)
    /\ [][\A tid \in DOMAIN tasks :
             /\ tid \in DOMAIN tasks'
             /\ tasks'[tid].progress >= tasks[tid].progress]_vars

\* C34: however the calls of get_instance interleave, the first ones
\* included, one AnalysisService is constructed at most and every call
\* returns that one object
C34_OneInstance ==
    /\ constructed <= 1
    /\ \A t \in Threads :
          gpc[t] = "done" => (got[t] # 0 /\ got[t] = instance)
    /\ \A t, u \in Threads :
          (got[t] # 0 /\ got[u] # 0) => got[t] = got[u]

\* a thread has its object while another, which saw None outside the lock,
\* looks again under the lock
C34_Witness ==
    \E t, u \in Threads :
       /\ gpc[t] = "done"
       /\ got[t] = 1
       /\ gpc[u] = "recheck"
       /\ constructed = 1

\* C35: the page issues at most MAX_POLL_COUNT status requests for a task;
\* a task whose server status stays running is then failed locally with a
\* timeout error, and the server state is not changed by it; the timer is
\* only ever stopped, and only when the task is no longer running or
\* pending; a task once seen as terminal is never polled again
C35_PollingBounded ==
    /\ [](polled <= MAX_POLL_COUNT)
    /\ []((server = "running" /\ ptask.pollCount > MAX_POLL_COUNT)
             => (ptask.status = "failed" /\ ptask.error = "timeout"))
    /\ [][(polled' # polled \/ ptask' # ptask) => server' = server]_vars
    /\ [][pollInterval' # pollInterval
             => (~LocallyActive(ptask) /\ ~pollInterval')]_vars
    /\ [][seenTerminal => polled' = polled]_vars

====
